---- MODULE Spec2Model ----
(***************************************************************************)
(* State-machine model of the OCR client (src/utils/ocrClient.js, kept in  *)
(* src/unnamed/part_002 lines 188-518): the OCR.space adapter with its     *)
(* retry loop, the Tesseract adapter with its shared worker, and runOCR,   *)
(* which composes them.                                                    *)
(*                                                                         *)
(* Strings are sequences of tokens.  The token "N" stands for the phrase   *)
(* 'No text detected', " " for one whitespace character and "a" for one    *)
(* other character; messages are built from such tokens, so that trim()    *)
(* and String.includes() are computed and not assumed.                     *)
(***************************************************************************)
EXTENDS Integers, Sequences, FiniteSets, TLC

VARIABLES
    V2_ENABLED,      \* import.meta.env.VITE_OCR_V2_ENABLED !== 'false'
    DEBUG,           \* import.meta.env.VITE_OCR_DEBUG === 'true'
    tesseractWorker, \* the module-level singleton: 0 is null, else a worker id
    workers,         \* workers[w]: the worker created w-th, [psm, terminated],
                     \* terminated counting the terminate() calls it received
    pc,              \* pc[c]: where call c is suspended
    mode,            \* options.mode of call c
    opts,            \* options of the callOcrSpace frame of call c in flight
    retryCount,      \* retryCount of that frame
    tessOpts,        \* options of callTesseract of call c
    worker,          \* the worker call c holds (0: none or null)
    text,            \* callTesseract's local text
    confidence,      \* callTesseract's local confidence
    engine_used,     \* diagnostics.engine_used of call c
    attempts,        \* diagnostics.attempts of call c
    result,          \* what runOCR of call c returned (NoResult before)
    error,           \* what runOCR of call c threw (<<>> before)
    requests,        \* history: the options of every request call c sent
    sleeps,          \* history: every backoff call c slept, in ms
    respLog,         \* history: the class of every response call c received
    localCalls,      \* history: how often call c entered callTesseract
    recognitions,    \* history: the psm under which each recognize of c ran
    returned,        \* history: the text each adapter returned to runOCR
    cleanupPc,       \* where the cleanupOCR call in progress is suspended
    cleanups,        \* history: how often cleanupOCR was called
    runs,            \* history: how many runOCR calls the caller got back
    fallbackText,    \* history: the text of the fallback recognize of call c
    ppPc,            \* where the preprocessImage call is: the step to run next
    imageSource,     \* what the call was given: "string" (data URL) or "blob"
    token,           \* App: the session token, NoToken after logout
    view,            \* App: the view shown
    isProcessing,    \* App: an upload is being processed
    status,          \* App: the status line
    appError,        \* App: the error line (the state named error in App)
    entries,         \* App: the rows of the table, newest first
    fileList,        \* handleUpload: the files selected, in selection order
    reading,         \* handleUpload: indexes of the files still being read
    dataUrls,        \* handleUpload: the data URLs read so far
    loaded,          \* handleUpload: how many reads have completed
    appPc,           \* where the upload is: what it is awaiting
    loopI,           \* processImagesBatch: the loop index i
    added,           \* processImagesBatch: entries added by this batch
    failed,          \* processImagesBatch: failures of this batch
    dataUrl,         \* processOneImage: its argument, 0 outside a call
    inFlight,        \* requests to /api/ocr sent and not yet answered
    sent,            \* history: the images this upload has posted to /api/ocr
    uploads,         \* how many uploads have been started
    USERS_FILE,      \* server: the user list stored in users.json
    STATS_FILE,      \* server: the statistics stored in stats.json
    gemini,          \* server: whether GEMINI_API_KEY is set
    reqs,            \* server: what each request carries
    reqPc,           \* server: where the handling of each request is
    resStatus,       \* server: the HTTP status each request was answered with
    usersRead,       \* server: the users a handler has read, its local copy
    modelsTried,     \* server: the models a request has called, in order
    response,        \* server: what the last model called came to
    img,             \* the decoded input image: [width, height, px]
    options,         \* the options of the preprocessImage call
    canvas,          \* [width, height] of the canvas
    data,            \* imageData.data, one <<R, G, B, A>> per pixel, by rows
    blob             \* what preprocessImage resolved with (NoBlob before)

vars == <<V2_ENABLED, DEBUG, tesseractWorker, workers, pc, mode, opts,
          retryCount, tessOpts, worker, text, confidence, engine_used,
          attempts, result, error, requests, sleeps, respLog, localCalls,
          recognitions, returned, cleanupPc, cleanups, runs, fallbackText,
          ppPc, imageSource, img, options, canvas, data, blob,
          token, view, isProcessing, status, appError, entries, fileList,
          reading, dataUrls, loaded, appPc, loopI, added, failed, dataUrl,
          inFlight, sent, uploads, USERS_FILE, STATS_FILE, gemini, reqs,
          reqPc, resStatus, usersRead, modelsTried, response>>

config == <<V2_ENABLED, DEBUG>>

\* the state of the App component and of an upload in progress
sessionVars == <<token, view>>
uploadVars == <<fileList, reading, dataUrls, loaded, appPc, loopI, added,
                failed, dataUrl, inFlight, sent, uploads>>
appVars == <<sessionVars, isProcessing, status, appError, entries, uploadVars>>

\* the state of the Express server: its files and the requests in progress
serverVars == <<USERS_FILE, STATS_FILE, gemini, reqs, reqPc, resStatus,
                usersRead, modelsTried, response>>
remoteVars == <<opts, retryCount, requests, sleeps, respLog>>
workerVars == <<tesseractWorker, workers>>
releaseVars == <<cleanupPc, cleanups, runs>>
imageVars == <<ppPc, imageSource, img, options, canvas, data, blob>>
localVars == <<tessOpts, worker, text, confidence, localCalls, recognitions>>
outcomeVars == <<engine_used, attempts, result, error, returned>>

----------------------------------------------------------------------------
(* Bounds of the model. *)

\* longest text an engine answers with, in tokens
MaxLen == 2
\* number of recognition calls that may be in progress together
NumCalls == 2
\* number of runOCR calls the caller makes one after the other
MaxRuns == 3
\* number of cleanupOCR calls
MaxCleanups == 2
\* longest side of an input image, in pixels
MaxSide == 7
\* largest maxWidth and maxHeight a caller configures
MaxBound == 3
\* number of pixels of the largest input image that is not of one colour
MaxPixels == 9

Calls == 1..NumCalls

----------------------------------------------------------------------------
(* Strings. *)

Chars == {" ", "a", "N"}

\* the characters of a text the local engine reads off an image
PlainChars == {" ", "a"}

SeqsUpTo(S, n) == UNION {[1..k -> S] : k \in 0..n}

Texts == SeqsUpTo(Chars, MaxLen)

\* what an HTTP error body may hold
ErrTexts == {<<"a">>, <<"N">>}

RECURSIVE TrimStart(_)
TrimStart(s) ==
    IF s # <<>> /\ Head(s) = " " THEN TrimStart(Tail(s)) ELSE s

RECURSIVE TrimEnd(_)
TrimEnd(s) ==
    IF s # <<>> /\ s[Len(s)] = " " THEN TrimEnd(SubSeq(s, 1, Len(s) - 1)) ELSE s

\* String.prototype.trim
Trim(s) == TrimEnd(TrimStart(s))

\* !s.trim()
Blank(s) == Trim(s) = <<>>

\* the literal 'No text detected'
NoTextDetected == <<"N">>

\* message.includes('No text detected')
IncludesNoText(msg) == \E i \in DOMAIN msg : msg[i] = "N"

----------------------------------------------------------------------------
(* callOcrSpace: one frame of the recursion, from the answer to its fetch  *)
(* to its retry, its return or its throw.                                  *)

maxRetries == 2

backoffMs == <<500, 1500>>

\* the defaults of the destructuring of options
DefaultOpts == [OCREngine |-> 2, detectOrientation |-> TRUE]

OptsSet == [OCREngine : {1, 2}, detectOrientation : BOOLEAN]

\* what the endpoint, the network or the timer may do to one request
Responses ==
    {[kind |-> "abort"], [kind |-> "neterr"], [kind |-> "empty"]}
    \cup {[kind |-> "http", status |-> s, body |-> b] :
            s \in {429, 500}, b \in ErrTexts}
    \cup {[kind |-> "apierr", msg |-> m] : m \in ErrTexts \cup {<<>>}}
    \cup {[kind |-> "parsed", text |-> t, overlay |-> o] :
            t \in Texts, o \in BOOLEAN}

TimeoutMsg == <<"OCR request timeout">>

\* the message of the TypeError of a failed fetch
FetchFailedMsg == <<"Failed to fetch">>

HttpMsg(r) == <<"HTTP", ToString(r.status), ":">> \o r.body

\* variant: every backoff is the first one
Retry_FlatBackoff(o, rc) == [act |-> "retry", opts |-> o, ms |-> backoffMs[1]]

\* await sleep(backoffMs[retryCount]); return callOcrSpace(.., retryCount + 1)
Retry(o, rc) == [act |-> "retry", opts |-> o, ms |-> backoffMs[rc + 1]]

Throw(msg) == [act |-> "throw", msg |-> msg]

Return(res) == [act |-> "return", res |-> res]

\* the catch block: an error thrown inside the try
Caught(msg, o, rc) ==
    IF rc < maxRetries /\ ~IncludesNoText(msg)
    THEN Retry(o, rc)
    ELSE Throw(msg)

\* the alternate parameters of the blank-text retry
AltOptions(o) ==
    [OCREngine |-> IF o.OCREngine = 2 THEN 1 ELSE 2,
     detectOrientation |-> ~o.detectOrientation]

OcrSpaceResult(r, o, rc) ==
    [text |-> r.text, engine |-> "ocrspace",
     confidence |-> IF r.overlay THEN "high" ELSE "medium",
     diagnostics |-> IF DEBUG THEN [ocrspace_engine |-> o.OCREngine,
                                    retry_count |-> rc]
                     ELSE <<>>]

\* variant: the timeout is handled like any other error of the try block
OnAbort_Retried(o, rc) == Caught(TimeoutMsg, o, rc)

\* the request was aborted by the timeout
OnAbort(o, rc) == Throw(TimeoutMsg)

\* variant: the rate-limit branch retries once only
OnHttpError_OneRetry(r, o, rc) ==
    IF r.status = 429 /\ rc < maxRetries - 1
    THEN Retry(o, rc)
    ELSE Caught(HttpMsg(r), o, rc)

\* the response is not ok
OnHttpError(r, o, rc) ==
    IF r.status = 429 /\ rc < maxRetries
    THEN Retry(o, rc)
    ELSE Caught(HttpMsg(r), o, rc)

\* data.IsErroredOnProcessing
OnApiError(r, o, rc) ==
    Caught(IF r.msg = <<>> THEN <<"Unknown OCR.space error">> ELSE r.msg,
           o, rc)

\* no ParsedResults
OnEmpty(o, rc) ==
    IF rc < maxRetries /\ o.OCREngine = 2
    THEN Retry([o EXCEPT !.OCREngine = 1], rc)
    ELSE Caught(NoTextDetected, o, rc)

\* the test of the parsed text
NoText(t) == Blank(t) \/ Trim(t) = NoTextDetected

\* variant: a blank ParsedText is thrown at once, without the retries
OnBlank_NoRetry(o, rc) == Caught(NoTextDetected, o, rc)

\* ParsedText is blank or the placeholder
OnBlank(o, rc) ==
    IF rc < maxRetries
    THEN Retry(AltOptions(o), rc)
    ELSE Caught(NoTextDetected, o, rc)

callOcrSpace(r, o, rc) ==
    CASE r.kind = "abort" -> OnAbort(o, rc)
      [] r.kind = "neterr" -> Caught(FetchFailedMsg, o, rc)
      [] r.kind = "http" -> OnHttpError(r, o, rc)
      [] r.kind = "apierr" -> OnApiError(r, o, rc)
      [] r.kind = "empty" -> OnEmpty(o, rc)
      [] r.kind = "parsed" ->
            IF NoText(r.text)
            THEN OnBlank(o, rc)
            ELSE Return(OcrSpaceResult(r, o, rc))

\* the class of a response, for the history: what the answer was, without
\* the wording of an error or of a blank text
ClassOf(r) ==
    CASE r.kind = "http" /\ r.status = 429 -> [kind |-> "429"]
      [] r.kind = "http" /\ r.status # 429 ->
            [kind |-> "error", noText |-> IncludesNoText(r.body)]
      [] r.kind = "apierr" ->
            [kind |-> "apierr", noText |-> IncludesNoText(r.msg)]
      [] r.kind = "neterr" -> [kind |-> "error", noText |-> FALSE]
      [] r.kind = "parsed" ->
            IF NoText(r.text)
            THEN [kind |-> "blank"]
            ELSE r
      [] OTHER -> r

----------------------------------------------------------------------------
(* callTesseract and the shared worker. *)

PsmModes == {"6", "11"}

\* the confidences recognize may report
Confidences == {0, 29, 30}

ConfidenceThreshold == 30

\* what worker.recognize may answer
Recognized == [text : SeqsUpTo(PlainChars, MaxLen), confidence : Confidences]

NoWorker == 0

\* the defaults of the destructuring of callTesseract's options
DefaultTessOpts == [pagesegMode |-> "6", fallbackPagesegMode |-> "11"]

NewWorker(psm) == [psm |-> psm, terminated |-> 0]

\* worker.setParameters({tessedit_pageseg_mode: psm}) on worker w
SetParameters(ws, w, psm) == [ws EXCEPT ![w].psm = psm]

\* the condition of the fallback segmentation run
NeedsFallback(t, conf, o) ==
    (Blank(t) \/ conf < ConfidenceThreshold)
    /\ o.pagesegMode # o.fallbackPagesegMode

\* variant: a fallback text as long as the primary one replaces it too
FallbackWins_NotStrict(ft, t) == ft # <<>> /\ Len(Trim(ft)) >= Len(Trim(t))

\* whether the fallback run's text replaces the primary one
FallbackWins(ft, t) == ft # <<>> /\ Len(Trim(ft)) > Len(Trim(t))

TesseractResult(t, conf, o) ==
    [text |-> t, engine |-> "tesseract",
     confidence |-> IF conf > 0 THEN ToString(conf) \o "%" ELSE "unknown",
     diagnostics |-> IF DEBUG
                     THEN [pageseg_mode_used |->
                              IF t # <<>> THEN o.pagesegMode
                              ELSE o.fallbackPagesegMode,
                           confidence |-> conf]
                     ELSE <<>>]

----------------------------------------------------------------------------
(* runOCR. *)

Modes == {"auto", "ocrspace", "tesseract"}

NoResult == <<>>
NoError == <<>>

ValidationMsg == <<"N", "after OCR processing">>

Sources == [kind : {"string", "blob"}, decodable : BOOLEAN]

\* the try block of Step 1, preprocessImage included: what it can end with
\* for a source.  "ok": an image is handed on, processed or, after an error
\* was caught, the original; "throw": the fetch of the original failed;
\* "hang": a load or read without error handler never answered
PreprocessOutcomes(src) ==
    CASE src.kind = "string" /\ src.decodable -> {"ok", "throw", "hang"}
      [] src.kind = "string" /\ ~src.decodable -> {"ok", "throw"}
      [] src.kind = "blob" /\ src.decodable -> {"ok", "hang"}
      [] src.kind = "blob" /\ ~src.decodable -> {"hang"}

\* the else branch of Step 1: the original is fetched if it is a data URL
OriginalOutcomes(src) ==
    IF src.kind = "blob" THEN {"ok"} ELSE {"ok", "throw"}

InitWith(started) ==
    /\ V2_ENABLED \in BOOLEAN
    /\ DEBUG \in BOOLEAN
    /\ tesseractWorker = NoWorker
    /\ workers = <<>>
    /\ pc = [c \in Calls |-> IF c \in started THEN "idle" ELSE "off"]
    /\ mode = [c \in Calls |-> "auto"]
    /\ opts = [c \in Calls |-> DefaultOpts]
    /\ retryCount = [c \in Calls |-> 0]
    /\ tessOpts = [c \in Calls |-> DefaultTessOpts]
    /\ worker = [c \in Calls |-> NoWorker]
    /\ text = [c \in Calls |-> <<>>]
    /\ confidence = [c \in Calls |-> 0]
    /\ engine_used = [c \in Calls |-> "null"]
    /\ attempts = [c \in Calls |-> <<>>]
    /\ result = [c \in Calls |-> NoResult]
    /\ error = [c \in Calls |-> NoError]
    /\ requests = [c \in Calls |-> <<>>]
    /\ sleeps = [c \in Calls |-> <<>>]
    /\ respLog = [c \in Calls |-> <<>>]
    /\ localCalls = [c \in Calls |-> 0]
    /\ recognitions = [c \in Calls |-> <<>>]
    /\ returned = [c \in Calls |-> <<>>]
    /\ cleanupPc = "idle"
    /\ cleanups = 0
    /\ runs = 0
    /\ fallbackText = [c \in Calls |-> <<>>]

\* the defaults of the destructuring of preprocessImage's options
DefaultPreOptions ==
    [maxWidth |-> 2000, maxHeight |-> 2000, enableGrayscale |-> TRUE,
     enableContrast |-> TRUE, enableBinarization |-> FALSE,
     enableSharpen |-> FALSE]

NoImage == [width |-> 0, height |-> 0, px |-> <<>>]
NoCanvas == [width |-> 0, height |-> 0]
NoBlob == [kind |-> "none", width |-> 0, height |-> 0, px |-> <<>>]

\* no preprocessImage call is followed pixel by pixel
\* the App as it is after a login, with an empty table and no upload
NoToken == "null"

NoUpload ==
    /\ token = "token"
    /\ view = "app"
    /\ isProcessing = FALSE
    /\ status = "Ready to scan"
    /\ appError = ""
    /\ entries = <<>>
    /\ fileList = <<>>
    /\ reading = {}
    /\ dataUrls = <<>>
    /\ loaded = 0
    /\ appPc = "idle"
    /\ loopI = 0
    /\ added = <<>>
    /\ failed = <<>>
    /\ dataUrl = 0
    /\ inFlight = {}
    /\ sent = <<>>
    /\ uploads = 0

\* the requests the server handles
NumReqs == 2

Reqs == 1..NumReqs

\* the default of SUPER_ADMIN_NUMBERS, always a member of it
SUPER_ADMIN_NUMBERS == {<<"0", "7", "0", "5", "1", "6", "1", "1", "6", "1">>}

NoRequest ==
    [kind |-> "none", auth |-> [kind |-> "none", number |-> <<>>],
     number |-> <<>>, file |-> "none", entries |-> FALSE,
     adminSecret |-> FALSE, password |-> FALSE]

\* readStats without a file
NoStats ==
    [total |-> 0,
     byNumber |-> [n \in {} |-> 0]]

\* the store after seedUserIfNeeded, and the requests in started waiting
ServerWith(started) ==
    /\ USERS_FILE = <<[number |-> CHOOSE n \in SUPER_ADMIN_NUMBERS : TRUE,
                       passwordHash |-> 0]>>
    /\ STATS_FILE = NoStats
    /\ reqs = [q \in Reqs |-> NoRequest]
    /\ reqPc = [q \in Reqs |-> IF q \in started THEN "new" ELSE "off"]
    /\ resStatus = [q \in Reqs |-> 0]
    /\ usersRead = [q \in Reqs |-> <<>>]
    /\ modelsTried = [q \in Reqs |-> <<>>]
    /\ response = [q \in Reqs |-> "none"]

NoRequests == ServerWith({}) /\ gemini = TRUE

PreprocessOff ==
    /\ ppPc = "off"
    /\ imageSource = "none"
    /\ img = NoImage
    /\ options = DefaultPreOptions
    /\ canvas = NoCanvas
    /\ data = <<>>
    /\ blob = NoBlob

\* the end of Step 1
AfterStep1(c, out) ==
    CASE out = "throw" ->
            /\ pc' = [pc EXCEPT ![c] = "failed"]
            /\ error' = [error EXCEPT ![c] = FetchFailedMsg]
      [] out = "hang" ->
            /\ pc' = [pc EXCEPT ![c] = "hung"]
            /\ UNCHANGED error
      [] out = "ok" ->
            /\ pc' = [pc EXCEPT ![c] = "dispatch"]
            /\ UNCHANGED error

\* runOCR is called with a mode of modes, up to the first await of Step 1
RunOCR(c, modes) ==
    /\ pc[c] = "idle"
    /\ \E m \in modes : mode' = [mode EXCEPT ![c] = m]
    /\ \E enablePreprocessing \in BOOLEAN :
         IF enablePreprocessing /\ V2_ENABLED
         THEN /\ pc' = [pc EXCEPT ![c] = "preprocess"]
              /\ UNCHANGED error
         ELSE \E src \in Sources :
                 \E out \in OriginalOutcomes(src) : AfterStep1(c, out)
    /\ UNCHANGED <<serverVars, appVars,
                   config, releaseVars, imageVars, fallbackText, workerVars,
                   remoteVars, localVars, engine_used, attempts, result,
                   returned>>

\* the preprocessing of Step 1 ends
Preprocess(c) ==
    /\ pc[c] = "preprocess"
    /\ \E src \in Sources :
          \E out \in PreprocessOutcomes(src) : AfterStep1(c, out)
    /\ UNCHANGED <<serverVars, appVars,
                   config, releaseVars, imageVars, fallbackText, workerVars,
                   mode, remoteVars, localVars, engine_used, attempts,
                   result, returned>>

\* runOCR throws msg
Fail(c, msg) ==
    /\ pc' = [pc EXCEPT ![c] = "failed"]
    /\ error' = [error EXCEPT ![c] = msg]
    /\ UNCHANGED result

\* variant: diagnostics.engine_used || result.engine
FinalResult_TagFirst(res, tag, att) ==
    [text |-> res.text, engine |-> tag, confidence |-> res.confidence,
     diagnostics |-> IF DEBUG
                     THEN [engine_used |-> tag, attempts |-> att,
                           engine |-> res.diagnostics,
                           parsed_text_length |-> Len(res.text)]
                     ELSE <<>>]

FinalResult(res, tag, att) ==
    [text |-> res.text, engine |-> res.engine, confidence |-> res.confidence,
     diagnostics |-> IF DEBUG
                     THEN [engine_used |-> tag, attempts |-> att,
                           engine |-> res.diagnostics,
                           parsed_text_length |-> Len(res.text)]
                     ELSE <<>>]

\* variant: Step 3 without the trim, !result.text
Rejected_EmptyOnly(res) == res.text = <<>>

\* variant: Step 3 left out
Rejected_Never(res) == FALSE

\* Step 3 of runOCR: !result.text || !result.text.trim()
Rejected(res) == res.text = <<>> \/ Blank(res.text)

\* Steps 3 and 4 of runOCR, after an adapter returned res
Finish(c, res, tag, att) ==
    /\ returned' = [returned EXCEPT ![c] =
                      Append(@, [engine |-> res.engine, text |-> res.text])]
    /\ engine_used' = [engine_used EXCEPT ![c] = tag]
    /\ attempts' = [attempts EXCEPT ![c] = @ \o att]
    /\ IF Rejected(res)
       THEN Fail(c, ValidationMsg)
       ELSE /\ pc' = [pc EXCEPT ![c] = "done"]
            /\ result' = [result EXCEPT ![c] =
                            FinalResult(res, tag, attempts[c] \o att)]
            /\ UNCHANGED error

\* whether Step 2 goes straight to Tesseract
DirectTesseract(m) == m = "tesseract" \/ (~V2_ENABLED /\ m = "auto")

\* variant: no mode catches the failure of callOcrSpace
FallsBack_Never(m) == FALSE

\* variant: every mode catches the failure of callOcrSpace
FallsBack_Always(m) == TRUE

\* whether a failure of callOcrSpace is caught by Step 2 (the AUTO branch)
FallsBack(m) == m # "ocrspace"

\* variant: every callTesseract creates its own worker
CallTesseract_AlwaysCreates(c) ==
    /\ localCalls' = [localCalls EXCEPT ![c] = @ + 1]
    /\ \E p \in PsmModes, f \in PsmModes :
          tessOpts' = [tessOpts EXCEPT ![c] =
                         [pagesegMode |-> p, fallbackPagesegMode |-> f]]
    /\ pc' = [pc EXCEPT ![c] = "createWorker"]
    /\ UNCHANGED worker

\* callTesseract is entered: getTesseractWorker up to its first await
CallTesseract(c) ==
    /\ localCalls' = [localCalls EXCEPT ![c] = @ + 1]
    /\ \E p \in PsmModes, f \in PsmModes :
          tessOpts' = [tessOpts EXCEPT ![c] =
                         [pagesegMode |-> p, fallbackPagesegMode |-> f]]
    /\ IF tesseractWorker = NoWorker
       THEN /\ pc' = [pc EXCEPT ![c] = "createWorker"]
            /\ UNCHANGED worker
       ELSE /\ pc' = [pc EXCEPT ![c] = "gotWorker"]
            /\ worker' = [worker EXCEPT ![c] = tesseractWorker]

\* callOcrSpace is entered with retryCount 0: the first request is sent
CallOcrSpace(c) ==
    /\ \E o \in OptsSet :
          /\ opts' = [opts EXCEPT ![c] = o]
          /\ requests' = [requests EXCEPT ![c] = Append(@, o)]
    /\ pc' = [pc EXCEPT ![c] = "fetch"]
    /\ UNCHANGED <<retryCount, sleeps, respLog>>

\* variant: the AUTO branch starts both engines at once
Dispatch_Race(c) ==
    /\ pc[c] = "dispatch"
    /\ CallTesseract(c)
    /\ IF DirectTesseract(mode[c])
       THEN UNCHANGED requests
       ELSE \E o \in OptsSet :
               requests' = [requests EXCEPT ![c] = Append(@, o)]
    /\ UNCHANGED <<opts, retryCount, sleeps, respLog, text, confidence,
                   recognitions>>
    /\ UNCHANGED <<serverVars, appVars,
                   config, releaseVars, imageVars, fallbackText, workerVars,
                   mode, outcomeVars>>

\* Step 2 of runOCR
Dispatch(c) ==
    /\ pc[c] = "dispatch"
    /\ IF DirectTesseract(mode[c])
       THEN /\ CallTesseract(c)
            /\ UNCHANGED <<remoteVars, text, confidence, recognitions>>
       ELSE /\ CallOcrSpace(c)
            /\ UNCHANGED localVars
    /\ UNCHANGED <<serverVars, appVars,
                   config, releaseVars, imageVars, fallbackText, workerVars,
                   mode, outcomeVars>>

\* the fetch of call c is answered, or aborted by the timeout
RemoteRespond(c) ==
    /\ pc[c] = "fetch"
    /\ \E r \in Responses :
         LET out == callOcrSpace(r, opts[c], retryCount[c]) IN
         /\ respLog' = [respLog EXCEPT ![c] = Append(@, ClassOf(r))]
         /\ CASE out.act = "retry" ->
                   /\ sleeps' = [sleeps EXCEPT ![c] = Append(@, out.ms)]
                   /\ opts' = [opts EXCEPT ![c] = out.opts]
                   /\ retryCount' = [retryCount EXCEPT ![c] = @ + 1]
                   /\ pc' = [pc EXCEPT ![c] = "sleep"]
                   /\ UNCHANGED <<localVars, outcomeVars>>
              [] out.act = "return" ->
                   /\ Finish(c, out.res, "ocrspace",
                             IF mode[c] = "auto"
                             THEN <<<<"ocrspace-success">>>> ELSE <<>>)
                   /\ UNCHANGED <<localVars, opts, retryCount, sleeps>>
              [] out.act = "throw" /\ ~FallsBack(mode[c]) ->
                   /\ Fail(c, out.msg)
                   /\ UNCHANGED <<localVars, opts, retryCount, sleeps,
                                  engine_used, attempts, returned>>
              [] out.act = "throw" /\ FallsBack(mode[c]) ->
                   /\ attempts' = [attempts EXCEPT ![c] =
                                     Append(@, <<"ocrspace-failed:">> \o out.msg)]
                   /\ CallTesseract(c)
                   /\ UNCHANGED <<opts, retryCount, sleeps, text, confidence,
                                  recognitions, engine_used, result, error,
                                  returned>>
    /\ UNCHANGED <<serverVars, appVars,
                   config, releaseVars, imageVars, fallbackText, workerVars,
                   mode, requests>>

\* the backoff timer of call c fires: the next frame sends its request
SleepResolved(c) ==
    /\ pc[c] = "sleep"
    /\ requests' = [requests EXCEPT ![c] = Append(@, opts[c])]
    /\ pc' = [pc EXCEPT ![c] = "fetch"]
    /\ UNCHANGED <<serverVars, appVars,
                   config, releaseVars, imageVars, fallbackText, workerVars,
                   mode, opts, retryCount, sleeps, respLog, localVars,
                   outcomeVars>>

\* how runOCR tags the return of callTesseract
LocalTag(m) == IF DirectTesseract(m) THEN "tesseract" ELSE "tesseract-fallback"

LocalAttempt(m) ==
    IF DirectTesseract(m) THEN <<>> ELSE <<<<"tesseract-fallback">>>>

\* the frame of callTesseract is left: its locals are gone
LeaveTesseract(c) ==
    /\ tessOpts' = [tessOpts EXCEPT ![c] = DefaultTessOpts]
    /\ worker' = [worker EXCEPT ![c] = NoWorker]
    /\ text' = [text EXCEPT ![c] = <<>>]
    /\ confidence' = [confidence EXCEPT ![c] = 0]

\* callTesseract returns to runOCR
ReturnTesseract(c, t, conf) ==
    /\ Finish(c, TesseractResult(t, conf, tessOpts[c]), LocalTag(mode[c]),
              LocalAttempt(mode[c]))
    /\ LeaveTesseract(c)

\* callTesseract throws, and so does runOCR
ThrowTesseract(c, msg) ==
    /\ Fail(c, msg)
    /\ LeaveTesseract(c)
    /\ UNCHANGED <<engine_used, attempts, returned>>

\* Tesseract.createWorker of call c settles
CreateWorkerResolved(c) ==
    /\ pc[c] = "createWorker"
    /\ \/ /\ workers' = Append(workers, NewWorker("6"))
          /\ tesseractWorker' = Len(workers) + 1
          /\ pc' = [pc EXCEPT ![c] = "initParams"]
          /\ UNCHANGED <<tessOpts, worker, text, confidence, outcomeVars>>
       \/ /\ ThrowTesseract(c, <<"createWorker failed">>)
          /\ UNCHANGED workerVars
    /\ UNCHANGED <<serverVars, appVars,
                   config, releaseVars, imageVars, fallbackText, mode,
                   remoteVars, localCalls, recognitions>>

\* the setParameters of getTesseractWorker settles: it returns the singleton
InitParamsResolved(c) ==
    /\ pc[c] = "initParams"
    /\ worker' = [worker EXCEPT ![c] = tesseractWorker]
    /\ pc' = [pc EXCEPT ![c] = "gotWorker"]
    /\ UNCHANGED <<serverVars, appVars,
                   config, releaseVars, imageVars, fallbackText, workerVars,
                   mode, remoteVars, tessOpts, text, confidence, localCalls,
                   recognitions, outcomeVars>>

\* callTesseract resumes with its worker and sets the primary mode
SetPrimary(c) ==
    /\ pc[c] = "gotWorker"
    /\ IF worker[c] = NoWorker
       THEN /\ ThrowTesseract(c, <<"TypeError">>)
            /\ UNCHANGED workers
       ELSE /\ workers' = SetParameters(workers, worker[c],
                                        tessOpts[c].pagesegMode)
            /\ pc' = [pc EXCEPT ![c] = "setPrimary"]
            /\ UNCHANGED <<tessOpts, worker, text, confidence, outcomeVars>>
    /\ UNCHANGED <<serverVars, appVars,
                   config, releaseVars, imageVars, fallbackText,
                   tesseractWorker, mode, remoteVars, localCalls,
                   recognitions>>

\* a setParameters of callTesseract settles: recognize is called
StartRecognize(c, from, to) ==
    /\ pc[c] = from
    /\ recognitions' = [recognitions EXCEPT ![c] =
                          Append(@, workers[worker[c]].psm)]
    /\ pc' = [pc EXCEPT ![c] = to]
    /\ UNCHANGED <<serverVars, appVars,
                   config, releaseVars, imageVars, fallbackText, workerVars,
                   mode, remoteVars, tessOpts, worker, text, confidence,
                   localCalls, outcomeVars>>

\* the primary recognize settles
RecognizeResolved(c) ==
    /\ pc[c] = "recognize"
    /\ \/ \E out \in Recognized :
            IF NeedsFallback(out.text, out.confidence, tessOpts[c])
            THEN /\ text' = [text EXCEPT ![c] = out.text]
                 /\ confidence' = [confidence EXCEPT ![c] = out.confidence]
                 /\ workers' = SetParameters(workers, worker[c],
                                    tessOpts[c].fallbackPagesegMode)
                 /\ pc' = [pc EXCEPT ![c] = "setFallback"]
                 /\ UNCHANGED <<tessOpts, worker, outcomeVars>>
            ELSE /\ ReturnTesseract(c, out.text, out.confidence)
                 /\ UNCHANGED workers
       \/ /\ ThrowTesseract(c, <<"recognize failed">>)
          /\ UNCHANGED workers
    /\ UNCHANGED <<serverVars, appVars,
                   config, releaseVars, imageVars, fallbackText,
                   tesseractWorker, mode, remoteVars, localCalls,
                   recognitions>>

\* the fallback recognize settles
FallbackResolved(c) ==
    /\ pc[c] = "recognizeFallback"
    /\ \/ \E out \in Recognized :
            /\ fallbackText' = [fallbackText EXCEPT ![c] = out.text]
            /\ IF FallbackWins(out.text, text[c])
               THEN ReturnTesseract(c, out.text, out.confidence)
               ELSE ReturnTesseract(c, text[c], confidence[c])
       \/ /\ ThrowTesseract(c, <<"recognize failed">>)
          /\ UNCHANGED fallbackText
    /\ UNCHANGED <<serverVars, appVars,
                   config, releaseVars, imageVars, workerVars, mode,
                   remoteVars, localCalls, recognitions>>

----------------------------------------------------------------------------
(* cleanupOCR, and the caller that calls runOCR again. *)

callVars == <<mode, remoteVars, localVars, outcomeVars, fallbackText>>

\* no runOCR call is in progress
Quiet == \A c \in Calls : pc[c] \in {"off", "idle", "done", "failed"}

\* the caller has got the outcome of call c and calls runOCR again: the
\* new call starts with the locals of a fresh frame
NextCall(c) ==
    /\ pc[c] \in {"done", "failed"}
    /\ runs < MaxRuns - 1
    /\ runs' = runs + 1
    /\ pc' = [pc EXCEPT ![c] = "idle"]
    /\ mode' = [mode EXCEPT ![c] = "auto"]
    /\ opts' = [opts EXCEPT ![c] = DefaultOpts]
    /\ retryCount' = [retryCount EXCEPT ![c] = 0]
    /\ engine_used' = [engine_used EXCEPT ![c] = "null"]
    /\ attempts' = [attempts EXCEPT ![c] = <<>>]
    /\ result' = [result EXCEPT ![c] = NoResult]
    /\ error' = [error EXCEPT ![c] = NoError]
    /\ requests' = [requests EXCEPT ![c] = <<>>]
    /\ sleeps' = [sleeps EXCEPT ![c] = <<>>]
    /\ respLog' = [respLog EXCEPT ![c] = <<>>]
    /\ localCalls' = [localCalls EXCEPT ![c] = 0]
    /\ recognitions' = [recognitions EXCEPT ![c] = <<>>]
    /\ returned' = [returned EXCEPT ![c] = <<>>]
    /\ fallbackText' = [fallbackText EXCEPT ![c] = <<>>]
    /\ UNCHANGED <<serverVars, appVars,
                   config, workerVars, tessOpts, worker, text, confidence,
                   cleanupPc, cleanups, imageVars>>

\* worker.terminate() is called on worker w
Terminate(ws, w) == [ws EXCEPT ![w].terminated = @ + 1]

\* cleanupOCR is called: up to its await
CleanupOCR ==
    /\ cleanupPc = "idle"
    /\ cleanups < MaxCleanups
    /\ cleanups' = cleanups + 1
    /\ IF tesseractWorker # NoWorker
       THEN /\ workers' = Terminate(workers, tesseractWorker)
            /\ cleanupPc' = "terminate"
       ELSE UNCHANGED <<workers, cleanupPc>>
    /\ UNCHANGED <<serverVars, appVars,
                   config, tesseractWorker, pc, callVars, runs, imageVars>>

\* variant: the handle is kept after terminate() has settled
TerminateResolved_KeepsHandle ==
    /\ cleanupPc = "terminate"
    /\ cleanupPc' = "idle"
    /\ UNCHANGED <<serverVars, appVars,
                   config, workerVars, pc, callVars, cleanups, runs,
                   imageVars>>

\* terminate() has settled: cleanupOCR drops the handle
TerminateResolved ==
    /\ cleanupPc = "terminate"
    /\ tesseractWorker' = NoWorker
    /\ cleanupPc' = "idle"
    /\ UNCHANGED <<serverVars, appVars,
                   config, workers, pc, callVars, cleanups, runs, imageVars>>

----------------------------------------------------------------------------
(* One recognition call at a time, in any mode. *)

Init == InitWith({1}) /\ PreprocessOff /\ NoUpload /\ NoRequests

Next ==
    \E c \in Calls :
        \/ RunOCR(c, Modes)
        \/ Preprocess(c)
        \/ Dispatch(c)
        \/ RemoteRespond(c)
        \/ SleepResolved(c)
        \/ CreateWorkerResolved(c)
        \/ InitParamsResolved(c)
        \/ SetPrimary(c)
        \/ StartRecognize(c, "setPrimary", "recognize")
        \/ RecognizeResolved(c)
        \/ StartRecognize(c, "setFallback", "recognizeFallback")
        \/ FallbackResolved(c)

Spec == Init /\ [][Next]_vars

(* Concurrent recognition calls that all go straight to the local engine,   *)
(* under the default configuration.                                        *)

InitWorker ==
    /\ InitWith(Calls) /\ PreprocessOff /\ NoUpload /\ NoRequests
    /\ V2_ENABLED /\ ~DEBUG

NextWorker ==
    \E c \in Calls :
        \/ RunOCR(c, {"tesseract"})
        \/ Preprocess(c)
        \/ Dispatch(c)
        \/ CreateWorkerResolved(c)
        \/ InitParamsResolved(c)
        \/ SetPrimary(c)
        \/ StartRecognize(c, "setPrimary", "recognize")
        \/ RecognizeResolved(c)
        \/ StartRecognize(c, "setFallback", "recognizeFallback")
        \/ FallbackResolved(c)

SpecWorker == InitWorker /\ [][NextWorker]_vars

----------------------------------------------------------------------------
(* One caller that calls the local engine and cleanupOCR one after the     *)
(* other, each call after the one before has settled, under the default    *)
(* configuration.                                                          *)

InitSeq ==
    /\ InitWith({1}) /\ PreprocessOff /\ NoUpload /\ NoRequests
    /\ V2_ENABLED /\ ~DEBUG

NextSeq ==
    \/ /\ cleanupPc = "idle"
       /\ \E c \in Calls :
            \/ RunOCR(c, {"tesseract"})
            \/ Preprocess(c)
            \/ Dispatch(c)
            \/ CreateWorkerResolved(c)
            \/ InitParamsResolved(c)
            \/ SetPrimary(c)
            \/ StartRecognize(c, "setPrimary", "recognize")
            \/ RecognizeResolved(c)
            \/ StartRecognize(c, "setFallback", "recognizeFallback")
            \/ FallbackResolved(c)
            \/ NextCall(c)
    \/ Quiet /\ CleanupOCR
    \/ TerminateResolved

SpecSeq == InitSeq /\ [][NextSeq]_vars

----------------------------------------------------------------------------
(* preprocessImage (src/utils/imagePreprocessing.js, part_002 lines 1-186), *)
(* from the decoded image to the blob it resolves with.  A pixel is the    *)
(* tuple <<R, G, B, A>>; an image lists its pixels by rows.  Fractions are  *)
(* kept exact as numerator and denominator.                                 *)

\* the colours of the input images; neither has a gray value that falls on
\* a half
Palette == {<<40, 90, 200, 255>>, <<250, 180, 60, 128>>}

\* the images of w by h pixels
ImagesOf(w, h, colours) ==
    [width : {w}, height : {h}, px : [1..(w * h) -> colours]]

\* the maxWidth and maxHeight a caller passes
BoundsSet == 2..MaxBound

PreOptions ==
    [maxWidth : BoundsSet, maxHeight : BoundsSet,
     enableGrayscale : BOOLEAN, enableContrast : BOOLEAN,
     enableBinarization : BOOLEAN, enableSharpen : BOOLEAN]

\* the default of contrastFactor, 1.2, in tenths
contrastFactor == 12

\* Math.round of num / den, for num >= 0 and den > 0
MathRound(num, den) == (2 * num + den) \div (2 * den)

\* variant: an image within the bounds is scaled up to them
NeedsResize_Always(w, h, o) == TRUE

\* the condition of the resize step
NeedsResize(w, h, o) == w > o.maxWidth \/ h > o.maxHeight

\* Math.min(maxWidth / width, maxHeight / height)
Ratio(w, h, o) ==
    IF o.maxWidth * h <= o.maxHeight * w
    THEN <<o.maxWidth, w>>
    ELSE <<o.maxHeight, h>>

\* Step 1: the width and height of the canvas
Resized(w, h, o) ==
    IF NeedsResize(w, h, o)
    THEN LET ratio == Ratio(w, h, o)
         IN  [width |-> MathRound(w * ratio[1], ratio[2]),
              height |-> MathRound(h * ratio[1], ratio[2])]
    ELSE [width |-> w, height |-> h]

\* Steps 2 and 3: the pixels read back after the image is drawn w by h.
\* Each pixel is that of the source at the same relative place: exact for
\* an image drawn at its own size and for an image of one colour.
Drawn(im, w, h) ==
    [i \in 1..(w * h) |->
        LET x == (i - 1) % w
            y == (i - 1) \div w
            sx == (x * im.width) \div w
            sy == (y * im.height) \div h
        IN  im.px[sy * im.width + sx + 1]]

\* a store of num / den (den > 0) into a Uint8ClampedArray: clamped to
\* 0..255 and rounded to the nearest integer, a half to the even one
ToUint8Clamped(num, den) ==
    IF num <= 0 THEN 0
    ELSE IF num >= 255 * den THEN 255
    ELSE LET q == num \div den
             twice == 2 * (num % den)
         IN  IF twice < den THEN q
             ELSE IF twice > den THEN q + 1
             ELSE IF q % 2 = 0 THEN q ELSE q + 1

\* Step 4
Gray(p) == MathRound(299 * p[1] + 587 * p[2] + 114 * p[3], 1000)

Grayscale(d) ==
    [i \in DOMAIN d |-> LET gray == Gray(d[i])
                        IN  <<gray, gray, gray, d[i][4]>>]

\* Step 5: v * factor + 128 * (1 - factor), stored into data
Contrasted(v) ==
    ToUint8Clamped(v * contrastFactor + 128 * (10 - contrastFactor), 10)

Contrast(d) ==
    [i \in DOMAIN d |->
        <<Contrasted(d[i][1]), Contrasted(d[i][2]), Contrasted(d[i][3]),
          d[i][4]>>]

\* Step 6: histogram[v], counted on the R channel
Histogram(d, v) == Cardinality({i \in DOMAIN d : d[i][1] = v})

RECURSIVE SumOf(_, _)
SumOf(d, n) == IF n = 0 THEN 0 ELSE d[n][1] + SumOf(d, n - 1)

\* the locals of the threshold loop before its first iteration;
\* maxVariance is a fraction
OtsuStart ==
    [wB |-> 0, sumB |-> 0, maxVariance |-> <<0, 1>>, threshold |-> 128,
     broken |-> FALSE]

\* variant: a later level of equal variance replaces the threshold
OtsuStep_TiesLast(d, sum, st, i) ==
    LET hist == Histogram(d, i)
        wB == st.wB + hist
        wF == Len(d) - wB
        sumB == st.sumB + i * hist
        diff == sumB * wF - (sum - sumB) * wB
        variance == <<diff * diff, wB * wF>>
    IN  IF wB = 0 THEN st
        ELSE IF wF = 0 THEN [st EXCEPT !.wB = wB, !.broken = TRUE]
        ELSE IF variance[1] * st.maxVariance[2]
                   >= st.maxVariance[1] * variance[2]
        THEN [st EXCEPT !.wB = wB, !.sumB = sumB,
                        !.maxVariance = variance, !.threshold = i]
        ELSE [st EXCEPT !.wB = wB, !.sumB = sumB]

\* iteration i of the threshold loop on the locals st
OtsuStep(d, sum, st, i) ==
    LET hist == Histogram(d, i)
        wB == st.wB + hist
        wF == Len(d) - wB
        sumB == st.sumB + i * hist
        \* (mB - mF) * wB * wF
        diff == sumB * wF - (sum - sumB) * wB
        variance == <<diff * diff, wB * wF>>
    IN  IF wB = 0 THEN st
        ELSE IF wF = 0 THEN [st EXCEPT !.wB = wB, !.broken = TRUE]
        ELSE IF variance[1] * st.maxVariance[2]
                   > st.maxVariance[1] * variance[2]
        THEN [st EXCEPT !.wB = wB, !.sumB = sumB,
                        !.maxVariance = variance, !.threshold = i]
        ELSE [st EXCEPT !.wB = wB, !.sumB = sumB]

\* the iterations lo to hi of the threshold loop, in their order; none
\* runs after the break
RECURSIVE OtsuLoop(_, _, _, _, _)
OtsuLoop(d, sum, st, lo, hi) ==
    IF st.broken THEN st
    ELSE IF lo = hi THEN OtsuStep(d, sum, st, lo)
    ELSE LET mid == (lo + hi) \div 2
         IN  OtsuLoop(d, sum, OtsuLoop(d, sum, st, lo, mid), mid + 1, hi)

Threshold(d) == OtsuLoop(d, SumOf(d, Len(d)), OtsuStart, 0, 255).threshold

\* variant: the threshold is applied to the R channel only
Binarize_RedOnly(d) ==
    LET threshold == Threshold(d)
    IN  [i \in DOMAIN d |->
            <<IF d[i][1] > threshold THEN 255 ELSE 0, d[i][2], d[i][3],
              d[i][4]>>]

Binarize(d) ==
    LET threshold == Threshold(d)
    IN  [i \in DOMAIN d |->
            LET value == IF d[i][1] > threshold THEN 255 ELSE 0
            IN  <<value, value, value, d[i][4]>>]

\* Step 7
sharpenKernel == <<0, -1, 0, -1, 5, -1, 0, -1, 0>>

\* Math.min(255, Math.max(0, v))
Clamp(v) == IF v < 0 THEN 0 ELSE IF v > 255 THEN 255 ELSE v

\* the sum over the kernel of channel ch around pixel (x, y) of tempData
RECURSIVE Convolved(_, _, _, _, _, _)
Convolved(tempData, w, x, y, ch, k) ==
    IF k = 0 THEN 0
    ELSE LET kx == ((k - 1) % 3) - 1
             ky == ((k - 1) \div 3) - 1
         IN  tempData[(y + ky) * w + (x + kx) + 1][ch] * sharpenKernel[k]
                + Convolved(tempData, w, x, y, ch, k - 1)

\* variant: the kernel reads the data it writes, there is no tempData
Sharpen_InPlace(d, w, h) ==
    LET RECURSIVE Visit(_, _)
        Visit(cur, k) ==
            IF k > Len(d) THEN cur
            ELSE LET x == (k - 1) % w
                     y == (k - 1) \div w
                 IN  IF x >= 1 /\ x < w - 1 /\ y >= 1 /\ y < h - 1
                     THEN Visit([cur EXCEPT ![k] =
                                   <<Clamp(Convolved(cur, w, x, y, 1, 9)),
                                     Clamp(Convolved(cur, w, x, y, 2, 9)),
                                     Clamp(Convolved(cur, w, x, y, 3, 9)),
                                     cur[k][4]>>], k + 1)
                     ELSE Visit(cur, k + 1)
    IN  Visit(d, 1)

Sharpen(d, w, h) ==
    [i \in DOMAIN d |->
        LET x == (i - 1) % w
            y == (i - 1) \div w
        IN  IF x >= 1 /\ x < w - 1 /\ y >= 1 /\ y < h - 1
            THEN <<Clamp(Convolved(d, w, x, y, 1, 9)),
                   Clamp(Convolved(d, w, x, y, 2, 9)),
                   Clamp(Convolved(d, w, x, y, 3, 9)), d[i][4]>>
            ELSE d[i]]

ocrVars == <<config, workerVars, pc, callVars, releaseVars>>

\* the catch block: the original image is what the call resolves with
Original(im) ==
    [kind |-> "original", width |-> im.width, height |-> im.height,
     px |-> im.px]

\* a Blob source is read as a data URL.  The reader has no error handler:
\* when the read fails the promise awaited is never settled.
ReadSource ==
    /\ ppPc = "read"
    /\ IF imageSource = "blob"
       THEN \E read \in BOOLEAN : ppPc' = IF read THEN "load" ELSE "hung"
       ELSE ppPc' = "load"
    /\ UNCHANGED <<serverVars, appVars,
                   ocrVars, imageSource, img, options, canvas, data, blob>>

\* loadImage: a source that is no image rejects, and the catch block runs
LoadImage ==
    /\ ppPc = "load"
    /\ ppPc' = IF img = NoImage THEN "catch" ELSE "draw"
    /\ UNCHANGED <<serverVars, appVars,
                   ocrVars, imageSource, img, options, canvas, data, blob>>

\* Steps 1 to 3: the canvas is sized, the image drawn and read back.
\* getImageData throws for a canvas without pixels, and any canvas call may
\* fail for want of resources.
DrawImage ==
    /\ ppPc = "draw"
    /\ canvas' = Resized(img.width, img.height, options)
    /\ \E fails \in BOOLEAN :
          IF fails \/ canvas'.width = 0 \/ canvas'.height = 0
          THEN /\ ppPc' = "catch"
               /\ UNCHANGED data
          ELSE /\ data' = Drawn(img, canvas'.width, canvas'.height)
               /\ ppPc' = "grayscale"
    /\ UNCHANGED <<serverVars, appVars,
                   ocrVars, imageSource, img, options, blob>>

\* the catch block: a Blob source is returned as it is, a data URL is
\* fetched, and a failure of that fetch is thrown to the caller
Catch ==
    /\ ppPc = "catch"
    /\ \/ /\ blob' = Original(img)
          /\ ppPc' = "done"
       \/ /\ imageSource = "string"
          /\ ppPc' = "thrown"
          /\ UNCHANGED blob
    /\ UNCHANGED <<serverVars, appVars,
                   ocrVars, imageSource, img, options, canvas, data>>

GrayscaleStep ==
    /\ ppPc = "grayscale"
    /\ data' = IF options.enableGrayscale THEN Grayscale(data) ELSE data
    /\ ppPc' = "contrast"
    /\ UNCHANGED <<serverVars, appVars,
                   ocrVars, imageSource, img, options, canvas, blob>>

ContrastStep ==
    /\ ppPc = "contrast"
    /\ data' = IF options.enableContrast THEN Contrast(data) ELSE data
    /\ ppPc' = "binarize"
    /\ UNCHANGED <<serverVars, appVars,
                   ocrVars, imageSource, img, options, canvas, blob>>

BinarizationStep ==
    /\ ppPc = "binarize"
    /\ data' = IF options.enableBinarization THEN Binarize(data) ELSE data
    /\ ppPc' = "sharpen"
    /\ UNCHANGED <<serverVars, appVars,
                   ocrVars, imageSource, img, options, canvas, blob>>

SharpenStep ==
    /\ ppPc = "sharpen"
    /\ data' = IF options.enableSharpen
               THEN Sharpen(data, canvas.width, canvas.height)
               ELSE data
    /\ ppPc' = "toBlob"
    /\ UNCHANGED <<serverVars, appVars,
                   ocrVars, imageSource, img, options, canvas, blob>>

\* new Blob(): what the call resolves with when toBlob yields null
EmptyBlob == [kind |-> "empty", width |-> 0, height |-> 0, px |-> <<>>]

\* blob || new Blob()
Encoded(encoded, im, cv, d) ==
    IF encoded
    THEN [kind |-> "processed", width |-> cv.width, height |-> cv.height,
          px |-> d]
    ELSE EmptyBlob

\* The data is put back and the canvas encoded as PNG, if it can be.  The
\* assignment to imageData.data and putImageData are inside the try block:
\* where the platform rejects one of them the catch block runs.
ToBlob ==
    /\ ppPc = "toBlob"
    /\ \E put \in BOOLEAN :
          IF put
          THEN /\ \E encoded \in BOOLEAN :
                     blob' = Encoded(encoded, img, canvas, data)
               /\ ppPc' = "done"
          ELSE /\ ppPc' = "catch"
               /\ UNCHANGED blob
    /\ UNCHANGED <<serverVars, appVars,
                   ocrVars, imageSource, img, options, canvas, data>>

\* the input images: every image of one colour, and every image of several
\* colours that the options leave at its size
InputImages(o) ==
    UNION {ImagesOf(w, h, {colour}) :
              <<w, h, colour>> \in (1..MaxSide) \X (1..MaxSide) \X Palette}
    \cup
    UNION {ImagesOf(w, h, Palette) :
              <<w, h>> \in {s \in (1..MaxBound) \X (1..MaxBound) :
                               /\ s[1] * s[2] <= MaxPixels
                               /\ ~NeedsResize(s[1], s[2], o)}}

(* One preprocessImage call.  A source that is no image has NoImage as its *)
(* decoded image.                                                          *)

InitPre ==
    /\ InitWith({}) /\ NoUpload /\ NoRequests /\ V2_ENABLED /\ ~DEBUG
    /\ ppPc = "read"
    /\ imageSource \in {"string", "blob"}
    /\ options \in PreOptions
    /\ img \in InputImages(options) \cup {NoImage}
    /\ canvas = NoCanvas
    /\ data = <<>>
    /\ blob = NoBlob

NextPre ==
    \/ ReadSource
    \/ LoadImage
    \/ DrawImage
    \/ Catch
    \/ GrayscaleStep
    \/ ContrastStep
    \/ BinarizationStep
    \/ SharpenStep
    \/ ToBlob

SpecPre == InitPre /\ [][NextPre]_vars

----------------------------------------------------------------------------
(* Vocabulary of the properties. *)

Last(q) == q[Len(q)]

\* the callOcrSpace of call c has ended with a throw
RemoteThrew(c) ==
    /\ respLog[c] # <<>>
    /\ pc[c] \notin {"fetch", "sleep"}
    /\ Last(respLog[c]).kind # "parsed"

\* the callTesseract of call c has returned a result to runOCR
LocalReturned(c) == localCalls[c] > 0 /\ returned[c] # <<>>

\* every response call c received was of a kind of kinds
AllOfKind(c, kinds) == \A i \in DOMAIN respLog[c] : respLog[c][i].kind \in kinds

InLocal(c) ==
    pc[c] \in {"createWorker", "initParams", "gotWorker", "setPrimary",
               "recognize", "setFallback", "recognizeFallback"}

\* C1: in auto mode a failed remote adapter call is followed by exactly one
\* callTesseract, and once callTesseract was entered the call enters it no
\* second time and sends no further remote request.
C1_FallbackExactlyOnce ==
    /\ [](\A c \in Calls :
            (mode[c] = "auto" /\ RemoteThrew(c)) => localCalls[c] = 1)
    /\ [][\A c \in Calls :
            localCalls[c] >= 1 =>
                /\ localCalls'[c] = localCalls[c]
                /\ requests'[c] = requests[c]
                /\ pc'[c] \notin {"fetch", "sleep"}]_vars

C1_Witness ==
    \E c \in Calls :
        /\ mode[c] = "auto"
        /\ RemoteThrew(c)
        /\ Len(requests[c]) = 3
        /\ localCalls[c] = 1
        /\ pc[c] = "done"

\* C2: two calls that start while no worker exists create one worker in
\* total, and every call that holds a worker holds the singleton.
C2_OneWorkerOnColdStart ==
    /\ Len(workers) <= 1
    /\ \A c \in Calls : worker[c] # NoWorker => worker[c] = tesseractWorker

\* C3: runOCR returns a result only with a text that is not blank.
C3_SuccessHasText ==
    \A c \in Calls :
        /\ pc[c] = "done" <=> result[c] # NoResult
        /\ result[c] # NoResult => ~Blank(result[c].text)

C3_Witness ==
    \E c \in Calls :
        /\ pc[c] = "done"
        /\ result[c].engine = "tesseract"
        /\ Len(Trim(result[c].text)) < Len(result[c].text)

\* C4: in auto mode, when every remote response was blank and callTesseract
\* returned a blank text, runOCR throws the 'no text detected' error of its
\* validation and returns nothing.
C4_BothBlankFails ==
    \A c \in Calls :
        (/\ mode[c] = "auto"
         /\ RemoteThrew(c)
         /\ AllOfKind(c, {"blank"})
         /\ LocalReturned(c)
         /\ Blank(Last(returned[c]).text))
        => /\ pc[c] = "failed"
           /\ error[c] = ValidationMsg
           /\ IncludesNoText(error[c])
           /\ result[c] = NoResult

C4_Witness ==
    \E c \in Calls :
        /\ mode[c] = "auto"
        /\ Len(respLog[c]) = 3
        /\ AllOfKind(c, {"blank"})
        /\ LocalReturned(c)
        /\ Last(returned[c]).text = <<" ">>
        /\ Len(recognitions[c]) = 2
        /\ pc[c] = "failed"

\* C5: a call sends at most 3 requests, every request but the first after a
\* backoff, and the k-th backoff is 500 ms for k = 1 and 1500 ms for k = 2,
\* whatever the responses were.
C5_RetryBudget ==
    \A c \in Calls :
        /\ Len(requests[c]) <= 3
        /\ Len(sleeps[c]) <= 2
        /\ Len(requests[c]) <= Len(sleeps[c]) + 1
        /\ \A k \in DOMAIN sleeps[c] :
              sleeps[c][k] = IF k = 1 THEN 500 ELSE 1500

C5_Witness ==
    \E c \in Calls :
        /\ Len(requests[c]) = 3
        /\ Len(respLog[c]) = 3
        /\ respLog[c][1].kind = "429"
        /\ respLog[c][2].kind = "apierr"
        /\ respLog[c][3].kind = "blank"
        /\ sleeps[c] = <<500, 1500>>

Only429(c) == AllOfKind(c, {"429"})

\* C6: after 429, 429 the call has slept 500 ms and 1500 ms and sends a third
\* request; when that is answered by a text, the call returns this text.
C6_TwoRateLimitsThenSuccess ==
    \A c \in Calls :
        /\ (Len(respLog[c]) \in {1, 2} /\ Only429(c)) =>
              /\ pc[c] \in {"sleep", "fetch"}
              /\ sleeps[c] = SubSeq(<<500, 1500>>, 1, Len(respLog[c]))
        /\ (/\ Len(respLog[c]) = 3
            /\ respLog[c][1].kind = "429"
            /\ respLog[c][2].kind = "429"
            /\ respLog[c][3].kind = "parsed") =>
              /\ pc[c] = "done"
              /\ result[c].text = respLog[c][3].text
              /\ result[c].engine = "ocrspace"
              /\ Len(requests[c]) = 3
              /\ sleeps[c] = <<500, 1500>>

C6_Witness ==
    \E c \in Calls :
        /\ Len(respLog[c]) = 3
        /\ respLog[c][1].kind = "429"
        /\ respLog[c][2].kind = "429"
        /\ respLog[c][3].kind = "parsed"
        /\ pc[c] = "done"

\* C7: a call that started on engine 2 and got only empty results sends its
\* first retry with engine 1 and its second retry with detectOrientation
\* flipped against the first request, and throws 'No text detected' after the
\* third empty result.
C7_EmptyResultMitigations ==
    \A c \in Calls :
        (/\ requests[c] # <<>>
         /\ requests[c][1].OCREngine = 2
         /\ AllOfKind(c, {"empty", "blank"}))
        => /\ Len(requests[c]) >= 2 => requests[c][2].OCREngine = 1
           /\ Len(respLog[c]) \in {1, 2} => pc[c] \in {"sleep", "fetch"}
           /\ Len(requests[c]) >= 3 =>
                 requests[c][3].detectOrientation
                    # requests[c][1].detectOrientation
           /\ (Len(respLog[c]) = 3 /\ mode[c] = "ocrspace") =>
                 (pc[c] = "failed" /\ error[c] = NoTextDetected)

\* C8: a request aborted by the timeout ends the adapter call with the
\* timeout error, without a backoff and without another request.
C8_TimeoutEndsCall ==
    \A c \in Calls :
        (respLog[c] # <<>> /\ Last(respLog[c]).kind = "abort") =>
            /\ RemoteThrew(c)
            /\ Len(requests[c]) = Len(respLog[c])
            /\ Len(sleeps[c]) = Len(respLog[c]) - 1
            /\ mode[c] = "ocrspace" =>
                  (pc[c] = "failed" /\ error[c] = TimeoutMsg)
            /\ mode[c] = "auto" =>
                  attempts[c][1] = <<"ocrspace-failed:">> \o TimeoutMsg

C8_Witness ==
    \E c \in Calls :
        /\ Len(respLog[c]) = 2
        /\ Last(respLog[c]).kind = "abort"
        /\ mode[c] = "ocrspace"
        /\ pc[c] = "failed"

\* C9: in mode 'ocrspace' callTesseract is never entered and no worker is
\* touched, and a throw of callOcrSpace is the throw of runOCR; in mode
\* 'tesseract' no request is sent, and a throw of callTesseract is the throw
\* of runOCR.
C9_SingleEngine ==
    \A c \in Calls :
        /\ mode[c] = "ocrspace" =>
              /\ localCalls[c] = 0
              /\ ~InLocal(c)
              /\ worker[c] = NoWorker
              /\ recognitions[c] = <<>>
              /\ RemoteThrew(c) =>
                    /\ pc[c] = "failed"
                    /\ error[c] # ValidationMsg
                    /\ Last(respLog[c]).kind = "abort" => error[c] = TimeoutMsg
                    /\ Last(respLog[c]).kind \in {"empty", "blank"} =>
                          error[c] = NoTextDetected
        /\ mode[c] = "tesseract" =>
              /\ requests[c] = <<>>
              /\ respLog[c] = <<>>
              /\ sleeps[c] = <<>>
              /\ pc[c] \notin {"fetch", "sleep"}
              /\ (pc[c] = "failed" /\ localCalls[c] = 1 /\ returned[c] = <<>>)
                    => error[c] \in {<<"createWorker failed">>,
                                     <<"recognize failed">>, <<"TypeError">>}

C9_Witness ==
    /\ \E c \in Calls :
          mode[c] = "ocrspace" /\ RemoteThrew(c) /\ Len(requests[c]) = 3
    /\ workers = <<>>

C9_WitnessLocal ==
    \E c \in Calls :
        /\ mode[c] = "tesseract"
        /\ pc[c] = "failed"
        /\ error[c] = <<"recognize failed">>

\* C10: in auto mode, when callOcrSpace threw and callTesseract returned a
\* text that is not blank, runOCR returns that text with engine 'tesseract'.
C10_FallbackRecovers ==
    \A c \in Calls :
        (/\ mode[c] = "auto"
         /\ RemoteThrew(c)
         /\ LocalReturned(c)
         /\ ~Blank(Last(returned[c]).text))
        => /\ pc[c] = "done"
           /\ result[c].text = Last(returned[c]).text
           /\ result[c].engine = "tesseract"
           /\ engine_used[c] = "tesseract-fallback"

C10_Witness ==
    \E c \in Calls :
        /\ mode[c] = "auto"
        /\ Len(requests[c]) = 3
        /\ AllOfKind(c, {"error", "apierr", "429"})
        /\ pc[c] = "done"
        /\ result[c].engine = "tesseract"

\* C11: in auto mode a blank (or placeholder) remote text is retried like a
\* failure while the retry budget lasts and, once the budget is used up, is
\* handed to the catch of the AUTO branch: callTesseract is entered once,
\* with the remote failure 'No text detected' on record.
C11_BlankTextFallsBack ==
    \A c \in Calls :
        (/\ mode[c] = "auto"
         /\ respLog[c] # <<>>
         /\ Last(respLog[c]).kind = "blank"
         /\ Len(respLog[c]) = Len(requests[c]))
        => IF Len(respLog[c]) < 3
           THEN pc[c] = "sleep"
           ELSE /\ RemoteThrew(c)
                /\ localCalls[c] = 1
                /\ Head(attempts[c]) = <<"ocrspace-failed:">> \o NoTextDetected
                /\ returned[c] # <<>> => Head(returned[c]).engine = "tesseract"

C11_Witness ==
    \E c \in Calls :
        /\ mode[c] = "auto"
        /\ Len(respLog[c]) = 3
        /\ respLog[c][1].kind = "error"
        /\ respLog[c][2].kind = "429"
        /\ respLog[c][3].kind = "blank"
        /\ localCalls[c] = 1
        /\ pc[c] = "done"

\* C12: no engine is invoked before Step 1 has ended; callTesseract is
\* entered after a remote request only when callOcrSpace has thrown, every
\* request being answered; and no request is sent after callTesseract was
\* entered.
C12_SequentialSteps ==
    /\ [](\A c \in Calls :
            /\ pc[c] \in {"idle", "preprocess", "dispatch"} =>
                  (requests[c] = <<>> /\ localCalls[c] = 0)
            /\ (localCalls[c] > 0 /\ requests[c] # <<>>) =>
                  /\ Len(respLog[c]) = Len(requests[c])
                  /\ Last(respLog[c]).kind # "parsed"
            /\ pc[c] \in {"fetch", "sleep"} => localCalls[c] = 0)
    /\ [][\A c \in Calls :
            /\ localCalls[c] > 0 => requests'[c] = requests[c]
            /\ (requests'[c] # requests[c] \/ localCalls'[c] # localCalls[c])
                  => pc[c] \notin {"idle", "preprocess"}]_vars

C12_Witness ==
    \E c \in Calls :
        /\ mode[c] = "auto"
        /\ Len(requests[c]) = 2
        /\ Len(respLog[c]) = 2
        /\ pc[c] = "recognizeFallback"

\* C14: cleanupOCR called while no worker is held changes nothing; called
\* on a held worker it terminates that worker once and drops the handle, so
\* that a second call in a row finds no worker; no worker is ever terminated
\* twice; and the worker the next callTesseract gets is a new one, not yet
\* terminated.
C14_CleanupIdempotent ==
    /\ [](/\ \A w \in DOMAIN workers : workers[w].terminated <= 1
          /\ (tesseractWorker = NoWorker /\ cleanupPc = "idle" /\ Quiet) =>
                \A w \in DOMAIN workers : workers[w].terminated = 1
          /\ (tesseractWorker # NoWorker /\ cleanupPc = "idle") =>
                workers[tesseractWorker].terminated = 0)
    /\ [][/\ (cleanups' # cleanups /\ tesseractWorker = NoWorker) =>
                UNCHANGED <<workerVars, cleanupPc>>
          /\ (cleanupPc = "terminate" /\ cleanupPc' = "idle") =>
                tesseractWorker' = NoWorker
          /\ (tesseractWorker = NoWorker /\ tesseractWorker' # NoWorker) =>
                /\ tesseractWorker' = Len(workers) + 1
                /\ workers'[tesseractWorker'].terminated = 0]_vars

\* cleanupOCR was called twice after a worker was used, and the call after
\* them runs on a second worker
C14_Witness ==
    /\ cleanups = 2
    /\ Len(workers) = 2
    /\ workers[1].terminated = 1
    /\ tesseractWorker = 2
    /\ \E c \in Calls : pc[c] = "recognize" /\ worker[c] = 2

\* C15: at most one worker that was not terminated exists at any time; none
\* exists before the first callTesseract; a worker is created only by a
\* callTesseract that found no worker held, that is by the first one after
\* startup or after a cleanupOCR; every other callTesseract takes the worker
\* held.
C15_SingleLiveWorker ==
    /\ [](/\ Cardinality({w \in DOMAIN workers :
                             workers[w].terminated = 0}) <= 1
          /\ Len(workers) <= cleanups + 1
          /\ (runs = 0 /\ \A c \in Calls : localCalls[c] = 0) =>
                workers = <<>>)
    /\ [][/\ \A c \in Calls :
               localCalls'[c] = localCalls[c] + 1 =>
                  IF tesseractWorker = NoWorker
                  THEN pc'[c] = "createWorker"
                  ELSE /\ pc'[c] = "gotWorker"
                       /\ worker'[c] = tesseractWorker
                       /\ workers[tesseractWorker].terminated = 0
          /\ Len(workers') # Len(workers) =>
               /\ Len(workers') = Len(workers) + 1
               /\ tesseractWorker = NoWorker
               /\ \E c \in Calls : /\ pc[c] = "createWorker"
                                    /\ pc'[c] = "initParams"
                                    /\ localCalls[c] = 1]_vars

\* the third call in a row runs on the worker the first one created
C15_Witness ==
    /\ runs = 2
    /\ cleanups = 0
    /\ Len(workers) = 1
    /\ \E c \in Calls : pc[c] = "recognize" /\ worker[c] = 1

\* C16: every recognize of a call runs under the segmentation mode that the
\* same call set just before it: the primary run under pagesegMode, the
\* fallback run under fallbackPagesegMode.
C16_RecognizeUnderOwnMode ==
    [][\A c \in Calls :
         /\ (pc[c] = "setPrimary" /\ pc'[c] = "recognize") =>
               Last(recognitions'[c]) = tessOpts[c].pagesegMode
         /\ (pc[c] = "setFallback" /\ pc'[c] = "recognizeFallback") =>
               Last(recognitions'[c]) = tessOpts[c].fallbackPagesegMode]_vars

\* C17: callTesseract runs recognize once under the primary mode; it runs it
\* once more, under the fallback mode, exactly when the primary text is blank
\* or the primary confidence is below 30 and the two modes differ; it then
\* returns the fallback text exactly when that text is not blank and its
\* trimmed length exceeds that of the primary text, and the primary text
\* otherwise; it never runs recognize more than twice.
C17_LocalAdapterRuns ==
    /\ [](\A c \in Calls : Len(recognitions[c]) <= 2)
    /\ [][\A c \in Calls :
            LET o == tessOpts[c]
                ret == Last(returned'[c]).text
            IN  /\ pc[c] = "recognize" =>
                     /\ Len(recognitions[c]) = 1
                     /\ pc'[c] = "setFallback" =>
                          /\ Blank(text'[c]) \/ confidence'[c] < 30
                          /\ o.pagesegMode # o.fallbackPagesegMode
                     /\ (returned'[c] # returned[c]
                            /\ o.pagesegMode # o.fallbackPagesegMode) =>
                          /\ ~Blank(ret)
                          /\ pc'[c] = "done"
                          /\ result'[c].confidence \in
                                {ToString(k) \o "%" :
                                    k \in {n \in Confidences : n >= 30}}
                /\ (pc[c] = "recognizeFallback"
                       /\ returned'[c] # returned[c]) =>
                     /\ Len(recognitions[c]) = 2
                     /\ LET ft == fallbackText'[c]
                        IN  ret = IF ~Blank(ft)
                                     /\ Len(Trim(ft)) > Len(Trim(text[c]))
                                  THEN ft
                                  ELSE text[c]]_vars

\* a fallback run has replaced the primary text
C17_Witness ==
    \E c \in Calls :
        /\ pc[c] = "done"
        /\ Len(recognitions[c]) = 2
        /\ Last(returned[c]).text = fallbackText[c]
        /\ Len(Trim(fallbackText[c])) = 2

C19_ScaledIntoBounds ==
    (/\ ppPc = "done"
     /\ (img.width > options.maxWidth \/ img.height > options.maxHeight))
    => LET scale == Ratio(img.width, img.height, options)
           Near(out, side) ==
               /\ out * scale[2] - side * scale[1] <= scale[2]
               /\ side * scale[1] - out * scale[2] <= scale[2]
       IN  /\ blob.width <= options.maxWidth
           /\ blob.height <= options.maxHeight
           /\ Near(blob.width, img.width)
           /\ Near(blob.height, img.height)

C21_NeverFatal ==
    /\ ppPc # "thrown"
    /\ ppPc = "done" => blob.kind \in {"processed", "original"}

(***************************************************************************)
(* The App component: uploads.  An image is a file's number; a data URL    *)
(* and a table entry are known by the file they come from.  The progress   *)
(* figure shown next to the status line is left out.                       *)
(***************************************************************************)

MaxFiles == 3
MaxUploads == 1

\* the answers of POST /api/ocr as processOneImage tells them apart, and
\* "network" for a fetch that rejects
OcrAnswers == {"ok", "blank", "notOk", "401", "network"}

\* the message of the Error processOneImage throws
MessageOf(answer) ==
    CASE answer = "401"     -> "Session expired"
      [] answer = "notOk"   -> "OCR processing failed"
      [] answer = "blank"   -> "No text detected"
      [] answer = "network" -> "Failed to fetch"
      [] answer = "dataUrl" -> "Failed to fetch"

IsBatch == Len(fileList) > 1

\* logout().  Its setError('') comes after the setError of the catch
\* block that calls it, and is the one that stays.
LoggedOut ==
    /\ token' = NoToken
    /\ view' = "login"
    /\ appError' = ""

\* processOneImage is called and runs up to its first await
CallProcessOneImage(url) ==
    /\ dataUrl' = url
    /\ appPc' = "fetch"

\* processImagesBatch after its loop
BatchFinished(ad, fl) ==
    /\ status' = IF Len(ad) = Len(dataUrls) THEN "Added all" ELSE "Added some"
    /\ appError' = IF Len(fl) > 0 THEN "Images failed" ELSE appError
    /\ isProcessing' = FALSE
    /\ appPc' = "idle"
    /\ dataUrl' = 0

\* processImagesBatch goes to the iteration after iteration i
NextImage(ad, fl) ==
    /\ loopI' = loopI + 1
    /\ IF loopI + 1 < Len(dataUrls)
       THEN /\ CallProcessOneImage(dataUrls[loopI + 2])
            /\ status' = "Processing image"
            /\ UNCHANGED <<appError, isProcessing>>
       ELSE BatchFinished(ad, fl)

\* variant: a failure takes the batch's entries out of the table again
EntriesAfterFailure_Rollback(es, ad) == SubSeq(es, Len(ad) + 1, Len(es))

\* the catch blocks leave the table alone
EntriesAfterFailure(es, ad) == es

\* processOneImage has returned an entry
Succeeded ==
    /\ entries' = <<dataUrl>> \o entries
    /\ IF IsBatch
       THEN /\ added' = Append(added, dataUrl)
            /\ NextImage(added', failed)
            /\ UNCHANGED <<failed, sessionVars>>
       ELSE /\ status' = "Captured"
            /\ isProcessing' = FALSE
            /\ appPc' = "idle"
            /\ dataUrl' = 0
            /\ UNCHANGED <<loopI, added, failed, appError, sessionVars>>

\* processOneImage has thrown an Error with this message
Failed(message) ==
    /\ entries' = EntriesAfterFailure(entries, added)
    /\ IF IsBatch
       THEN /\ failed' = Append(failed, [index |-> loopI + 1,
                                         message |-> message])
            /\ UNCHANGED added
            /\ IF message = "Session expired"
               THEN /\ LoggedOut
                    /\ appPc' = "idle"
                    /\ dataUrl' = 0
                    /\ UNCHANGED <<loopI, status, isProcessing>>
               ELSE /\ NextImage(added, failed')
                    /\ UNCHANGED sessionVars
       ELSE /\ status' = "Error"
            /\ IF message = "Session expired"
               THEN LoggedOut
               ELSE appError' = message /\ UNCHANGED sessionVars
            /\ isProcessing' = FALSE
            /\ appPc' = "idle"
            /\ dataUrl' = 0
            /\ UNCHANGED <<loopI, added, failed>>

\* handleUpload: the files are selected, and a reader is started for each
HandleUpload ==
    /\ token # NoToken
    /\ ~isProcessing
    /\ appPc = "idle"
    /\ uploads < MaxUploads
    /\ uploads' = uploads + 1
    /\ \E n \in 1..MaxFiles :
          /\ fileList' = [k \in 1..n |-> k]
          /\ reading' = 1..n
    /\ dataUrls' = <<>>
    /\ loaded' = 0
    /\ appPc' = "reading"
    /\ sent' = <<>>
    /\ UNCHANGED <<sessionVars, isProcessing, status, appError, entries, loopI,
                   added, failed, dataUrl, inFlight>>
    /\ UNCHANGED <<serverVars, ocrVars, imageVars>>

\* reader.onload of the k-th file.  For one file processImage is called;
\* for several the data URL is pushed, and the last read to complete
\* calls processImagesBatch.
ReaderLoaded ==
    /\ appPc = "reading"
    /\ \E k \in reading :
          /\ reading' = reading \ {k}
          /\ IF ~IsBatch
             THEN /\ isProcessing' = TRUE
                  /\ status' = "Processing image"
                  /\ appError' = ""
                  /\ CallProcessOneImage(fileList[k])
                  /\ UNCHANGED <<dataUrls, loaded, loopI, added, failed>>
             ELSE /\ dataUrls' = Append(dataUrls, fileList[k])
                  /\ loaded' = loaded + 1
                  /\ IF loaded' = Len(fileList)
                     THEN /\ isProcessing' = TRUE
                          /\ appError' = ""
                          /\ added' = <<>>
                          /\ failed' = <<>>
                          /\ loopI' = 0
                          /\ status' = "Processing image"
                          /\ CallProcessOneImage(dataUrls'[1])
                     ELSE UNCHANGED <<isProcessing, appError, added, failed,
                                      loopI, status, appPc, dataUrl>>
    /\ UNCHANGED <<sessionVars, entries, fileList, inFlight, sent, uploads>>
    /\ UNCHANGED <<serverVars, ocrVars, imageVars>>

\* a read fails: the readers have no error handler, and nothing follows
ReaderFailed ==
    /\ appPc = "reading"
    /\ \E k \in reading : reading' = reading \ {k}
    /\ appPc' = IF reading' = {} THEN "idle" ELSE appPc
    /\ UNCHANGED <<sessionVars, isProcessing, status, appError, entries,
                   fileList, dataUrls, loaded, loopI, added, failed, dataUrl,
                   inFlight, sent, uploads>>
    /\ UNCHANGED <<serverVars, ocrVars, imageVars>>

\* variant: the request stays in flight after its answer
Answered_Kept(fl, url) == fl

\* the request for this image is no longer in flight
Answered(fl, url) == fl \ {url}

\* processOneImage: the data URL has been fetched and turned into a blob,
\* and the blob is posted to /api/ocr; or the fetch has rejected
PostImage ==
    /\ appPc = "fetch"
    /\ \E fetched \in BOOLEAN :
          IF fetched
          THEN /\ inFlight' = inFlight \cup {dataUrl}
               /\ sent' = Append(sent, dataUrl)
               /\ appPc' = "ocr"
               /\ UNCHANGED <<sessionVars, isProcessing, status, appError,
                              entries, loopI, added, failed, dataUrl>>
          ELSE /\ Failed(MessageOf("dataUrl"))
               /\ UNCHANGED <<inFlight, sent>>
    /\ UNCHANGED <<fileList, reading, dataUrls, loaded, uploads>>
    /\ UNCHANGED <<serverVars, ocrVars, imageVars>>

\* processOneImage: /api/ocr has answered, or the request has failed.
\* checkAuth logs out on 401 before the Error is thrown.
OcrAnswered ==
    /\ appPc = "ocr"
    /\ inFlight' = Answered(inFlight, dataUrl)
    /\ \E answer \in OcrAnswers :
          IF answer = "ok" THEN Succeeded ELSE Failed(MessageOf(answer))
    /\ UNCHANGED <<fileList, reading, dataUrls, loaded, sent, uploads>>
    /\ UNCHANGED <<serverVars, ocrVars, imageVars>>

\* clearEntries: the user empties the table
ClearEntries ==
    /\ token # NoToken
    /\ entries # <<>>
    /\ entries' = <<>>
    /\ status' = "Cleared all rows"
    /\ UNCHANGED <<sessionVars, isProcessing, appError, uploadVars>>
    /\ UNCHANGED <<serverVars, ocrVars, imageVars>>

\* LoginPage's onLogin: the user has logged in again
Login ==
    /\ token = NoToken
    /\ view = "login"
    /\ token' = "token"
    /\ view' = "app"
    /\ appError' = ""
    /\ UNCHANGED <<isProcessing, status, entries, uploadVars>>
    /\ UNCHANGED <<serverVars, ocrVars, imageVars>>

InitApp ==
    /\ InitWith({}) /\ PreprocessOff /\ NoUpload /\ NoRequests
    /\ V2_ENABLED /\ ~DEBUG

NextApp ==
    \/ HandleUpload
    \/ ReaderLoaded
    \/ ReaderFailed
    \/ PostImage
    \/ OcrAnswered
    \/ ClearEntries
    \/ Login

SpecApp == InitApp /\ [][NextApp]_vars

\* C22: the images of a batch are processed one at a time: at most one
\* request to /api/ocr is in flight, that of the image the loop is at, and
\* none while the next image is being prepared.
C22_OneAtATime ==
    /\ Cardinality(inFlight) <= 1
    /\ appPc = "ocr" => inFlight = {dataUrl}
    /\ appPc # "ocr" => inFlight = {}

\* the second request of a batch is in flight
C22_Witness ==
    /\ IsBatch
    /\ Len(sent) >= 2
    /\ inFlight # {}

\* C23: in a batch, a step that records a failure, a session expiry
\* included, leaves the table as it is; a step that records a success puts
\* the new entry first in the table, and posts no further image.
C23_FailureKeepsEntries ==
    [][/\ (IsBatch /\ Len(failed') > Len(failed)) => entries' = entries
       /\ (IsBatch /\ Len(added') > Len(added)) =>
             /\ entries' = <<dataUrl>> \o entries
             /\ sent' = sent
             /\ inFlight' = {}]_vars

\* a batch ended by a session expiry after it had added an entry, which is
\* still in the table
C23_Witness ==
    /\ IsBatch
    /\ token = NoToken
    /\ Len(added) >= 1
    /\ Len(failed) >= 1
    /\ failed[Len(failed)].message = "Session expired"
    /\ Len(entries) >= 1
    /\ entries[1] = added[Len(added)]

\* C27: the images of a batch are handed to processOneImage in the order
\* in which the files were selected.
C27_SelectionOrder ==
    (IsBatch /\ appPc \in {"fetch", "ocr"}) => dataUrl = fileList[loopI + 1]

\* C24: in auto mode every failed call throws one and the same error, the
\* 'no text detected' error of Step 3, whichever engine failed and why.
C24_OneTerminalError ==
    \A c \in Calls :
       (mode[c] = "auto" /\ pc[c] = "failed") => error[c] = ValidationMsg

\* C25: with V2_ENABLED off a call of any mode uses the local engine only:
\* it sends no request to OCR.space, runs no preprocessing, and is never a
\* fallback from one engine to the other.
C25_LocalOnlyWhenDisabled ==
    ~V2_ENABLED =>
       \A c \in Calls :
          /\ requests[c] = <<>>
          /\ pc[c] # "preprocess"
          /\ engine_used[c] \notin {"ocrspace", "tesseract-fallback"}

\* C28: within one callOcrSpace call the engine is switched at most once:
\* after a request with engine 2 has been followed by one with engine 1,
\* no later request of the call is sent with engine 2.
C28_EngineSwitchedOnce ==
    \A c \in Calls :
       \A j, k, l \in DOMAIN requests[c] :
          (/\ j < k /\ k < l
           /\ requests[c][j].OCREngine = 2
           /\ requests[c][k].OCREngine = 1)
             => requests[c][l].OCREngine = 1

\* C29: a request is followed by a retry only if it ended in HTTP 429, an
\* error reported by the engine, or an empty or placeholder result.
C29_RetryOnlyOnListedCauses ==
    \A c \in Calls :
       \A k \in DOMAIN respLog[c] :
          k < Len(requests[c])
             => respLog[c][k].kind \in {"429", "apierr", "empty", "blank"}

(* One runOCR call whose awaited steps all answer in the end: a step that  *)
(* can be taken is taken.                                                  *)

InitLive == Init /\ ~DEBUG

SpecLive == InitLive /\ [][Next]_vars /\ WF_vars(Next)

\* C26: every runOCR call that has started ends: it returns a result or
\* throws an error.
C26_CallTerminates ==
    \A c \in Calls :
       (pc[c] \notin {"off", "idle"}) ~> (pc[c] \in {"done", "failed"})

(***************************************************************************)
(* The binarization step on grayscale data of its own, against Otsu's      *)
(* method computed from its definition.  Variances are exact fractions     *)
(* <<numerator, denominator>>; the code computes them in floating point.   *)
(***************************************************************************)

MaxGrayPixels == 4

GrayLevels == {0, 50, 128, 129, 255}

GrayData ==
    UNION {[1..n -> {<<g, g, g, 255>> : g \in GrayLevels}] :
             n \in 1..MaxGrayPixels}

\* the pixels of d at level t or below, and the sum of their levels
RefBackground(d, t) == {k \in DOMAIN d : d[k][1] <= t}

RECURSIVE RefSum(_, _)
RefSum(d, ks) ==
    IF ks = {} THEN 0
    ELSE LET k == CHOOSE x \in ks : TRUE
         IN  d[k][1] + RefSum(d, ks \ {k})

\* wB * wF * (mB - mF)^2 at level t, 0 where a class is empty
RefVariance(d, t) ==
    LET back == RefBackground(d, t)
        fore == DOMAIN d \ back
        wB == Cardinality(back)
        wF == Cardinality(fore)
        diff == RefSum(d, back) * wF - RefSum(d, fore) * wB
    IN  IF wB = 0 \/ wF = 0 THEN <<0, 1>> ELSE <<diff * diff, wB * wF>>

GreaterFraction(a, b) == a[1] * b[2] > b[1] * a[2]

\* the first level of greatest variance among lo..hi, with its variance
RECURSIVE RefBest(_, _, _)
RefBest(d, lo, hi) ==
    IF lo = hi THEN [threshold |-> lo, variance |-> RefVariance(d, lo)]
    ELSE LET mid == (lo + hi) \div 2
             low == RefBest(d, lo, mid)
             high == RefBest(d, mid + 1, hi)
         IN  IF GreaterFraction(high.variance, low.variance)
             THEN high ELSE low

RefThreshold(d) == RefBest(d, 0, 255).threshold

\* no level splits the pixels into two classes of different means
Uniform(d) == RefBest(d, 0, 255).variance[1] = 0

\* pixels above t become white and the others black
Thresholded(d, t) ==
    [k \in DOMAIN d |->
        LET value == IF d[k][1] > t THEN 255 ELSE 0
        IN  <<value, value, value, d[k][4]>>]

InitOtsu ==
    /\ InitWith({}) /\ NoUpload /\ NoRequests /\ V2_ENABLED /\ ~DEBUG
    /\ ppPc = "binarize"
    /\ imageSource = "string"
    /\ options \in {o \in PreOptions :
                      /\ o.maxWidth = MaxBound /\ o.maxHeight = MaxBound
                      /\ ~o.enableGrayscale /\ ~o.enableContrast
                      /\ ~o.enableSharpen}
    /\ data \in GrayData
    /\ img = [width |-> Len(data), height |-> 1, px |-> data]
    /\ canvas = [width |-> Len(data), height |-> 1]
    /\ blob = NoBlob

NextOtsu == BinarizationStep

SpecOtsu == InitOtsu /\ [][NextOtsu]_vars

\* C30: the threshold of the binarization step is the first gray level of
\* greatest inter-class variance among the 256 levels, and the step turns
\* the pixels above it white and the others black.
C30_OtsuThreshold ==
    [][(ppPc = "binarize" /\ options.enableBinarization) =>
          /\ Threshold(data) = RefThreshold(data)
          /\ data' = Thresholded(data, RefThreshold(data))]_vars

\* C30, amended: so it is for data of more than one gray level; for data of
\* one gray level the threshold is 128.
C30_OtsuOrMidGray ==
    [][(ppPc = "binarize" /\ options.enableBinarization) =>
          LET t == IF Uniform(data) THEN 128 ELSE RefThreshold(data)
          IN  /\ Threshold(data) = t
              /\ data' = Thresholded(data, t)]_vars

\* data of three gray levels has been binarized into black and white
C30_Witness ==
    /\ ppPc = "sharpen"
    /\ options.enableBinarization
    /\ Cardinality({img.px[k][1] : k \in DOMAIN img.px}) = 3
    /\ \E j, k \in DOMAIN data : data[j][1] = 0 /\ data[k][1] = 255

(***************************************************************************)
(* The sharpen step of its own, on images wide enough to have interior     *)
(* pixels next to each other.                                              *)
(***************************************************************************)

MaxSharpSide == 4
MaxSharpPixels == 12

\* two colours whose red and green sharpen without clamping and whose blue
\* is clamped at both ends
SharpColours == {<<100, 110, 0, 255>>, <<110, 100, 255, 128>>}

SharpSizes ==
    {s \in (1..MaxSharpSide) \X (1..MaxSharpSide) :
        s[1] * s[2] <= MaxSharpPixels}

InitSharpen ==
    /\ InitWith({}) /\ NoUpload /\ NoRequests /\ V2_ENABLED /\ ~DEBUG
    /\ ppPc = "sharpen"
    /\ imageSource = "string"
    /\ options \in {o \in PreOptions :
                      /\ o.maxWidth = MaxBound /\ o.maxHeight = MaxBound
                      /\ ~o.enableGrayscale /\ ~o.enableContrast
                      /\ ~o.enableBinarization}
    /\ \E s \in SharpSizes :
          /\ canvas = [width |-> s[1], height |-> s[2]]
          /\ data \in [1..(s[1] * s[2]) -> SharpColours]
    /\ img = [width |-> canvas.width, height |-> canvas.height, px |-> data]
    /\ blob = NoBlob

NextSharpen == SharpenStep

SpecSharpen == InitSharpen /\ [][NextSharpen]_vars

\* pixel k of a w by h image is not in the first or last row or column
Interior(k, w, h) ==
    LET x == (k - 1) % w
        y == (k - 1) \div w
    IN  x >= 1 /\ x < w - 1 /\ y >= 1 /\ y < h - 1

\* clamp(5c - n - s - e - w, 0, 255) on channel ch around pixel k of d
Sharpened(d, w, k, ch) ==
    Clamp(5 * d[k][ch] - d[k - w][ch] - d[k + w][ch] - d[k + 1][ch]
             - d[k - 1][ch])

\* C31: the sharpen step leaves the pixels of the first and last row and
\* column as they are, leaves alpha as it is everywhere, and gives every
\* interior pixel clamp(5c - n - s - e - w, 0, 255) of the values the
\* pixels had before the step.
C31_SharpenFrame ==
    [][(ppPc = "sharpen" /\ options.enableSharpen) =>
          /\ DOMAIN data' = DOMAIN data
          /\ \A k \in DOMAIN data :
                IF Interior(k, canvas.width, canvas.height)
                THEN data'[k] = <<Sharpened(data, canvas.width, k, 1),
                                  Sharpened(data, canvas.width, k, 2),
                                  Sharpened(data, canvas.width, k, 3),
                                  data[k][4]>>
                ELSE data'[k] = data[k]]_vars

\* a 4 by 3 image has been sharpened, and both interior pixels changed
C31_Witness ==
    /\ ppPc = "toBlob"
    /\ options.enableSharpen
    /\ canvas = [width |-> 4, height |-> 3]
    /\ data[6] # img.px[6]
    /\ data[7] # img.px[7]
    /\ data[6][1] \in 1..254

(***************************************************************************)
(* The Express server.  A number is the tuple of its characters; the hash  *)
(* of the password a request generates is the request's own number, and    *)
(* the seeded user's hash is 0.  The log buffer is left out.               *)
(***************************************************************************)

NumberA == <<"0", "7", "7", "7", "0", "0", "0", "0", "0", "1">>
NumberB == <<"0", "7", "7", "7", "0", "0", "0", "0", "0", "2">>

\* the numbers a request body may carry: registered at the start, new,
\* new with whitespace in it, another new one, and one too short
RawNumbers ==
    SUPER_ADMIN_NUMBERS
    \cup {NumberA, <<" ">> \o SubSeq(NumberA, 1, 4) \o <<" ">>
                     \o SubSeq(NumberA, 5, 10),
          NumberB, <<"0", "7">>}

\* the Authorization header: absent, a token that does not verify, or a
\* token signed for a number
Auths ==
    {[kind |-> "none", number |-> <<>>], [kind |-> "invalid", number |-> <<>>]}
    \cup {[kind |-> "valid", number |-> n] :
            n \in SUPER_ADMIN_NUMBERS \cup {NumberA}}

Tokens == {a \in Auths : a.kind = "valid"}

\* the requests.  What a route never reads of a request, because its
\* first check ends it, is left out: the upload and the body of a request
\* without a token that verifies, the number of an admin request of a user
\* who is no super admin, the body after a wrong ADMIN_SECRET.
Requests ==
    {[NoRequest EXCEPT !.kind = k, !.auth = a] :
        k \in {"ocr", "export", "dashboard", "add", "reset"},
        a \in Auths \ Tokens}
    \cup {[NoRequest EXCEPT !.kind = "ocr", !.auth = a, !.file = f] :
            a \in Tokens, f \in {"none", "empty", "image"}}
    \cup {[NoRequest EXCEPT !.kind = "export", !.auth = a, !.entries = e] :
            a \in Tokens, e \in BOOLEAN}
    \cup {[NoRequest EXCEPT !.kind = k, !.auth = a] :
            k \in {"dashboard", "add", "reset"}, a \in Tokens}
    \cup {[NoRequest EXCEPT !.kind = k, !.auth = a, !.number = n] :
            k \in {"add", "reset"},
            a \in {t \in Tokens : t.number \in SUPER_ADMIN_NUMBERS},
            n \in RawNumbers}
    \cup {[NoRequest EXCEPT !.kind = "users"]}
    \cup {[NoRequest EXCEPT !.kind = "users", !.number = n,
                            !.adminSecret = TRUE, !.password = pw] :
            n \in {NumberA, <<>>}, pw \in BOOLEAN}

minNumberLength == 9

\* String(number ?? '').trim().replace(/\s/g, '')
Normalize(raw) == SelectSeq(raw, LAMBDA c : c # " ")

modelsToTry ==
    <<"gemini-2.5-flash", "gemini-2.5-flash-lite", "gemini-2.0-flash">>

\* what generateContent and the parsing of its text may come to: a text
\* that parses to a value toStructured can read, a text that parses to null,
\* of which toStructured throws, no text, a text JSON.parse throws of, an
\* error of the quota, another error
GeminiAnswers == {"json", "null", "empty", "unparsable", "quota", "error"}

\* variant: a token that does not verify is let through
Verified_Any(a) == a.kind # "none"

\* jwt.verify of the bearer token
Verified(a) == a.kind = "valid"

\* requireSuperAdmin: the status it answers with, 0 when it calls next()
SuperAdminStatus(a) ==
    IF ~Verified(a) THEN 401
    ELSE IF a.number \notin SUPER_ADMIN_NUMBERS THEN 403
    ELSE 0

\* variant: the body's number is looked up as it was sent
Registered_Raw(users, raw) == \E k \in DOMAIN users : users[k].number = raw

\* users.some((u) => u.number === normalized)
Registered(users, raw) ==
    \E k \in DOMAIN users : users[k].number = Normalize(raw)

\* variant: the total is counted, the user's count is not
Incremented_TotalOnly(stats, userNumber) ==
    [stats EXCEPT !.total = @ + 1]

\* incrementStats
Incremented(stats, userNumber) ==
    [total |-> stats.total + 1,
     byNumber |->
        [n \in DOMAIN stats.byNumber \cup {userNumber} |->
            IF n = userNumber
            THEN (IF n \in DOMAIN stats.byNumber THEN stats.byNumber[n]
                  ELSE 0) + 1
            ELSE stats.byNumber[n]]]

\* the response is sent
Respond(q, code) ==
    /\ resStatus' = [resStatus EXCEPT ![q] = code]
    /\ reqPc' = [reqPc EXCEPT ![q] = "done"]

\* variant: the loop starts over at the first model after a failure
NextModel_Again(tried) == modelsToTry[1]

\* the next modelId of the for loop
NextModel(tried) == modelsToTry[Len(tried) + 1]

\* gemini.models.generateContent is called for the next model
GenerateContent(q) ==
    /\ modelsTried' = [modelsTried EXCEPT ![q] =
                         Append(@, NextModel(modelsTried[q]))]
    /\ reqPc' = [reqPc EXCEPT ![q] = "generateContent"]
    /\ UNCHANGED resStatus

\* POST /api/ocr, up to the first call of a model
PostOcr(q, rq) ==
    /\ IF ~Verified(rq.auth) THEN Respond(q, 401) /\ UNCHANGED modelsTried
       ELSE IF rq.file = "none" THEN Respond(q, 400) /\ UNCHANGED modelsTried
       ELSE IF ~gemini THEN Respond(q, 503) /\ UNCHANGED modelsTried
       ELSE IF rq.file = "empty"
       THEN Respond(q, 422) /\ UNCHANGED modelsTried
       ELSE GenerateContent(q)
    /\ UNCHANGED <<USERS_FILE, STATS_FILE, usersRead>>

\* POST /api/export
PostExport(q, rq) ==
    /\ IF ~Verified(rq.auth) THEN Respond(q, 401)
       ELSE IF ~rq.entries THEN Respond(q, 400)
       ELSE \E built \in BOOLEAN : Respond(q, IF built THEN 200 ELSE 500)
    /\ UNCHANGED <<USERS_FILE, STATS_FILE, usersRead, modelsTried>>

\* GET /api/admin/dashboard
GetDashboard(q, rq) ==
    /\ IF SuperAdminStatus(rq.auth) # 0
       THEN Respond(q, SuperAdminStatus(rq.auth))
       ELSE Respond(q, 200)
    /\ UNCHANGED <<USERS_FILE, STATS_FILE, usersRead, modelsTried>>

\* the handler has read the users and awaits bcrypt.hash
AwaitHash(q) ==
    /\ usersRead' = [usersRead EXCEPT ![q] = USERS_FILE]
    /\ reqPc' = [reqPc EXCEPT ![q] = "hash"]
    /\ UNCHANGED resStatus

\* POST /api/admin/users/add, up to the await of bcrypt.hash
PostUsersAdd(q, rq) ==
    /\ IF SuperAdminStatus(rq.auth) # 0
       THEN Respond(q, SuperAdminStatus(rq.auth)) /\ UNCHANGED usersRead
       ELSE IF Len(Normalize(rq.number)) < minNumberLength
       THEN Respond(q, 400) /\ UNCHANGED usersRead
       ELSE IF Registered(USERS_FILE, rq.number)
       THEN Respond(q, 400) /\ UNCHANGED usersRead
       ELSE AwaitHash(q)
    /\ UNCHANGED <<USERS_FILE, STATS_FILE, modelsTried>>

\* POST /api/admin/users/reset, up to the await of bcrypt.hash
PostUsersReset(q, rq) ==
    /\ IF SuperAdminStatus(rq.auth) # 0
       THEN Respond(q, SuperAdminStatus(rq.auth)) /\ UNCHANGED usersRead
       ELSE IF Len(Normalize(rq.number)) < minNumberLength
       THEN Respond(q, 400) /\ UNCHANGED usersRead
       ELSE IF ~Registered(USERS_FILE, rq.number)
       THEN Respond(q, 404) /\ UNCHANGED usersRead
       ELSE AwaitHash(q)
    /\ UNCHANGED <<USERS_FILE, STATS_FILE, modelsTried>>

\* POST /api/admin/users, up to the await of bcrypt.hash
PostUsers(q, rq) ==
    /\ IF ~rq.adminSecret THEN Respond(q, 403) /\ UNCHANGED usersRead
       ELSE IF Normalize(rq.number) = <<>> \/ ~rq.password
       THEN Respond(q, 400) /\ UNCHANGED usersRead
       ELSE IF Registered(USERS_FILE, rq.number)
       THEN Respond(q, 400) /\ UNCHANGED usersRead
       ELSE AwaitHash(q)
    /\ UNCHANGED <<USERS_FILE, STATS_FILE, modelsTried>>

\* the requests for a route
RequestsFor(kind) == {rq \in Requests : rq.kind = kind}

OcrRequests == RequestsFor("ocr")

ExportRequests == RequestsFor("export")

DashboardRequests == RequestsFor("dashboard")

UsersAddRequests == RequestsFor("add")

UsersResetRequests == RequestsFor("reset")

UsersRequests == RequestsFor("users")

\* the request rq arrives as request q
Arrives(q, rq) ==
    /\ reqPc[q] = "new"
    /\ reqs' = [reqs EXCEPT ![q] = rq]
    /\ UNCHANGED <<gemini, response>>
    /\ UNCHANGED <<appVars, ocrVars, imageVars>>

\* a request for a route arrives and is handled up to its first await or
\* its response
OcrReceived(q) ==
    \E rq \in OcrRequests : Arrives(q, rq) /\ PostOcr(q, rq)

ExportReceived(q) ==
    \E rq \in ExportRequests : Arrives(q, rq) /\ PostExport(q, rq)

DashboardReceived(q) ==
    \E rq \in DashboardRequests : Arrives(q, rq) /\ GetDashboard(q, rq)

UsersAddReceived(q) ==
    \E rq \in UsersAddRequests : Arrives(q, rq) /\ PostUsersAdd(q, rq)

UsersResetReceived(q) ==
    \E rq \in UsersResetRequests : Arrives(q, rq) /\ PostUsersReset(q, rq)

UsersReceived(q) ==
    \E rq \in UsersRequests : Arrives(q, rq) /\ PostUsers(q, rq)

\* the users a handler writes: its copy with the new user pushed, or with
\* the user's hash replaced
UsersToWrite(q) ==
    IF reqs[q].kind = "reset"
    THEN [k \in DOMAIN usersRead[q] |->
            IF usersRead[q][k].number = Normalize(reqs[q].number)
            THEN [usersRead[q][k] EXCEPT !.passwordHash = q]
            ELSE usersRead[q][k]]
    ELSE Append(usersRead[q], [number |-> Normalize(reqs[q].number),
                               passwordHash |-> q])

\* bcrypt.hash resolves: the handler writes the users and answers
HashResolved(q) ==
    /\ reqPc[q] = "hash"
    /\ \E written \in BOOLEAN :
          IF written
          THEN /\ USERS_FILE' = UsersToWrite(q)
               /\ Respond(q, 200)
          ELSE /\ Respond(q, 500)
               /\ UNCHANGED USERS_FILE
    /\ usersRead' = [usersRead EXCEPT ![q] = <<>>]
    /\ UNCHANGED <<STATS_FILE, gemini, reqs, modelsTried, response>>
    /\ UNCHANGED <<appVars, ocrVars, imageVars>>

\* generateContent settles.  A text that parses is returned, and the
\* handler counts the request, if stats.json can be written, and answers;
\* anything else sends the loop to the next model, and after the last one
\* the handler answers 422.
GeminiAnswered(q) ==
    /\ reqPc[q] = "generateContent"
    /\ \E answer \in GeminiAnswers :
          /\ response' = [response EXCEPT ![q] = answer]
          /\ IF answer = "json"
             THEN /\ \E written \in BOOLEAN :
                        STATS_FILE' =
                           IF written
                           THEN Incremented(STATS_FILE, reqs[q].auth.number)
                           ELSE STATS_FILE
                  /\ Respond(q, 200)
                  /\ UNCHANGED modelsTried
             ELSE /\ IF Len(modelsTried[q]) < Len(modelsToTry)
                     THEN GenerateContent(q)
                     ELSE Respond(q, 422) /\ UNCHANGED modelsTried
                  /\ UNCHANGED STATS_FILE
    /\ UNCHANGED <<USERS_FILE, gemini, reqs, usersRead>>
    /\ UNCHANGED <<appVars, ocrVars, imageVars>>

InitServer ==
    /\ InitWith({}) /\ PreprocessOff /\ NoUpload /\ V2_ENABLED /\ ~DEBUG
    /\ ServerWith(Reqs)
    /\ gemini \in BOOLEAN

NextServer ==
    \E q \in Reqs :
       \/ OcrReceived(q)
       \/ ExportReceived(q)
       \/ DashboardReceived(q)
       \/ UsersAddReceived(q)
       \/ UsersResetReceived(q)
       \/ UsersReceived(q)
       \/ HashResolved(q)
       \/ GeminiAnswered(q)

SpecServer == InitServer /\ [][NextServer]_vars

\* the uploads and the statistics alone
NextOcr ==
    \E q \in Reqs :
       \/ OcrReceived(q)
       \/ GeminiAnswered(q)

SpecOcr == InitServer /\ [][NextOcr]_vars

\* the administration of the users alone
NextUsers ==
    \E q \in Reqs :
       \/ UsersAddReceived(q)
       \/ UsersResetReceived(q)
       \/ UsersReceived(q)
       \/ HashResolved(q)

SpecUsers == InitServer /\ [][NextUsers]_vars

\* the request q has just been received
Received(q) == reqPc[q] = "new" /\ reqPc'[q] # "new"

\* C32: a POST /api/ocr or /api/export without a valid bearer token is
\* answered 401 and calls no model and changes no file; the admin
\* dashboard, add-user and reset-password are answered 401 without a valid
\* token and 403 when the token's number is no super admin, and the users
\* and the statistics stay as they were.
C32_AuthBeforeEffect ==
    [][\A q \in Reqs :
          Received(q) =>
             LET rq == reqs'[q]
                 rejected ==
                    /\ reqPc'[q] = "done"
                    /\ modelsTried'[q] = <<>>
                    /\ USERS_FILE' = USERS_FILE
                    /\ STATS_FILE' = STATS_FILE
             IN  /\ (rq.kind \in {"ocr", "export"} /\ rq.auth.kind # "valid")
                       => resStatus'[q] = 401 /\ rejected
                 /\ (rq.kind \in {"dashboard", "add", "reset"}
                       /\ rq.auth.kind # "valid")
                       => resStatus'[q] = 401 /\ rejected
                 /\ (rq.kind \in {"dashboard", "add", "reset"}
                       /\ rq.auth.kind = "valid"
                       /\ rq.auth.number \notin SUPER_ADMIN_NUMBERS)
                       => resStatus'[q] = 403 /\ rejected]_vars

C32_Witness ==
    \E q, r \in Reqs :
       /\ reqs[q].kind = "ocr" /\ reqs[q].auth.kind = "invalid"
       /\ resStatus[q] = 401 /\ modelsTried[q] = <<>>
       /\ reqs[r].kind = "add"
       /\ reqs[r].auth = [kind |-> "valid", number |-> NumberA]
       /\ resStatus[r] = 403

\* the request q is an upload that reaches extractWithGeminiVision
Extracts(q) ==
    /\ reqPc[q] \notin {"off", "new"}
    /\ reqs[q].kind = "ocr" /\ reqs[q].auth.kind = "valid"
    /\ reqs[q].file # "none" /\ gemini

\* the models are called in the order of modelsToTry, each at most once,
\* and none after the request was answered
InOrderOnce(q) ==
    /\ Len(modelsTried[q]) <= Len(modelsToTry)
    /\ modelsTried[q] = SubSeq(modelsToTry, 1, Len(modelsTried[q]))
    /\ reqPc[q] = "done" => modelsTried'[q] = modelsTried[q]

\* the model called last has just answered
Answers(q) ==
    /\ reqPc[q] = "generateContent"
    /\ reqPc'[q] # reqPc[q] \/ modelsTried'[q] # modelsTried[q]

\* C33 as stated: the models are tried in the fixed order, each at most
\* once; the first response that is non-empty and parses is returned and
\* no later model is called; the answer is 422 if and only if all three
\* models have failed.
C33_FirstParsedOr422 ==
    [][\A q \in Reqs :
          /\ InOrderOnce(q)
          /\ (Answers(q) /\ response'[q] \in {"json", "null"})
                => /\ reqPc'[q] = "done" /\ resStatus'[q] = 200
                   /\ modelsTried'[q] = modelsTried[q]
          /\ (Extracts(q)' /\ reqPc'[q] = "done")
                => (resStatus'[q] = 422
                      <=> /\ modelsTried'[q] = modelsToTry
                          /\ response'[q] \notin {"json", "null"})]_vars

\* C33, amended: the models are tried in the fixed order, each at most
\* once; the first response that is non-empty and parses to something
\* other than null is returned and no later model is called; the answer is
\* 422 if and only if the upload is empty, and then no model is called, or
\* all three models have failed, a response that parses to null being a
\* failure like an empty one, an unparsable one or an error of the quota.
C33_FirstReadableOr422 ==
    [][\A q \in Reqs :
          /\ InOrderOnce(q)
          /\ (Answers(q) /\ response'[q] = "json")
                => /\ reqPc'[q] = "done" /\ resStatus'[q] = 200
                   /\ modelsTried'[q] = modelsTried[q]
          /\ (Answers(q) /\ response'[q] # "json")
                => IF modelsTried[q] = modelsToTry
                   THEN reqPc'[q] = "done" /\ resStatus'[q] = 422
                   ELSE /\ reqPc'[q] = "generateContent"
                        /\ Len(modelsTried'[q]) = Len(modelsTried[q]) + 1
          /\ (Extracts(q)' /\ reqPc'[q] = "done")
                => (resStatus'[q] = 422
                      <=> \/ reqs'[q].file = "empty" /\ modelsTried'[q] = <<>>
                          \/ /\ modelsTried'[q] = modelsToTry
                             /\ response'[q] # "json")]_vars

C33_Witness ==
    \E q, r \in Reqs :
       /\ q # r /\ Extracts(q) /\ Extracts(r)
       /\ resStatus[q] = 422 /\ modelsTried[q] = modelsToTry
       /\ response[q] = "quota"
       /\ resStatus[r] = 200 /\ Len(modelsTried[r]) = 2

\* C34: when no processing run is under way and the user is logged in,
\* isProcessing is false: a run that has finished, by success, by failures
\* or by the expiry of the session, leaves the capture and upload controls
\* enabled, also after the user has logged in again.
C34_ControlsEnabledAgain ==
    (appPc = "idle" /\ token # NoToken) => ~isProcessing

\* the request q was answered with success and updated the users
Updated(q, kinds) ==
    /\ reqs[q].kind \in kinds
    /\ reqPc[q] = "done"
    /\ resStatus[q] = 200

\* C35: once all requests have completed, the number of every add-user
\* request answered with success is in the stored users, and the hash
\* stored for a number whose password was reset with success is the hash of
\* such a reset: no successful update is lost by another request's write.
C35_NoLostUpdate ==
    (\A q \in Reqs : reqPc[q] = "done") =>
       \A q \in Reqs :
          /\ Updated(q, {"add", "users"}) =>
                \E k \in DOMAIN USERS_FILE :
                   USERS_FILE[k].number = Normalize(reqs[q].number)
          /\ Updated(q, {"reset"}) =>
                \E k \in DOMAIN USERS_FILE :
                   /\ USERS_FILE[k].number = Normalize(reqs[q].number)
                   /\ \E r \in Reqs :
                         /\ Updated(r, {"reset"})
                         /\ Normalize(reqs[r].number) = USERS_FILE[k].number
                         /\ USERS_FILE[k].passwordHash = r

\* no number is the number of two users
NoDuplicates(users) ==
    \A j, k \in DOMAIN users : users[j].number = users[k].number => j = k

\* the request passes the check of the route it is for: the super admin's
\* token, or ADMIN_SECRET
MayAdd(rq) ==
    \/ rq.kind = "add" /\ SuperAdminStatus(rq.auth) = 0
    \/ rq.kind = "users" /\ rq.adminSecret

CountOf(stats, n) ==
    IF n \in DOMAIN stats.byNumber THEN stats.byNumber[n] ELSE 0

\* the sum of the counts of these numbers
RECURSIVE SumOfCounts(_, _)
SumOfCounts(stats, numbers) ==
    IF numbers = {} THEN 0
    ELSE LET n == CHOOSE m \in numbers : TRUE
         IN  CountOf(stats, n) + SumOfCounts(stats, numbers \ {n})

\* total is the sum of the counts
Balanced(stats) == stats.total = SumOfCounts(stats, DOMAIN stats.byNumber)

\* the new statistics are the old ones with one more request of this user
CountedOnce(old, new, userNumber) ==
    /\ new.total = old.total + 1
    /\ \A n \in DOMAIN old.byNumber \cup DOMAIN new.byNumber :
          CountOf(new, n) = CountOf(old, n) + (IF n = userNumber THEN 1 ELSE 0)

\* the request q is answered in this step
Responds(q) == reqPc[q] # "done" /\ reqPc'[q] = "done"

\* C37 as stated: total is the sum of the counts of the numbers; a request
\* that produced a result adds exactly 1 to total and to the count of its
\* user, and a request answered 400, 401, 422 or 503 leaves the statistics
\* as they were.
C37_EveryResultCounted ==
    [][/\ Balanced(STATS_FILE')
       /\ \A q \in Reqs :
             Responds(q) =>
                IF resStatus'[q] = 200
                THEN CountedOnce(STATS_FILE, STATS_FILE',
                                 reqs[q].auth.number)
                ELSE /\ resStatus'[q] \in {400, 401, 422, 503}
                     /\ STATS_FILE' = STATS_FILE]_vars

\* C37, amended: total is the sum of the counts of the numbers; a request
\* that produced a result adds exactly 1 to total and to the count of its
\* user, or, when stats.json could not be written, leaves the statistics
\* as they were and is answered with its result all the same; a request
\* answered 400, 401, 422 or 503 leaves the statistics as they were.
C37_ResultCountedIfWritten ==
    [][/\ Balanced(STATS_FILE')
       /\ \A q \in Reqs :
             Responds(q) =>
                IF resStatus'[q] = 200
                THEN \/ CountedOnce(STATS_FILE, STATS_FILE',
                                    reqs[q].auth.number)
                     \/ STATS_FILE' = STATS_FILE
                ELSE /\ resStatus'[q] \in {400, 401, 422, 503}
                     /\ STATS_FILE' = STATS_FILE]_vars

C37_Witness ==
    \E q, r \in Reqs :
       /\ reqs[q].kind = "ocr" /\ resStatus[q] = 200
       /\ reqs[r].kind = "ocr" /\ resStatus[r] = 422
       /\ STATS_FILE.total = 1
       /\ CountOf(STATS_FILE, reqs[q].auth.number) = 1

====
